---- MODULE Spec2Model ----
(***************************************************************************)
(* Model of the CV <-> JD matching core of PiazzaTi:                       *)
(*   src/NLP/reranking.py      batch feature engine, DEI adjustment,       *)
(*                             linear scorer                               *)
(*   src/NLP/single_match.py   single-pair match service                   *)
(*   src/NLP/normalizzatore.py ontology and dataset normalizer             *)
(*                                                                         *)
(* Numbers.  The code computes with IEEE doubles; the model computes with  *)
(* exact rationals <<n, d>> (d > 0, lowest terms), so that equality of two *)
(* scores is structural equality.  Years are kept in tenths of a year      *)
(* (calculate_years_of_experience rounds to one decimal), cosine           *)
(* similarities in hundredths.  NaN inputs are not modelled: every weighted*)
(* feature goes through fillna(0) before it is used.  Writing a table to   *)
(* CSV and reading it back keeps rows, row order and values.               *)
(***************************************************************************)
EXTENDS Integers, Sequences, FiniteSets, TLC

(***************************************************************************)
(* Exact rational arithmetic                                               *)
(***************************************************************************)
Abs(x) == IF x < 0 THEN -x ELSE x

RECURSIVE GCD(_, _)
GCD(a, b) == IF b = 0 THEN a ELSE GCD(b, a % b)

R(n, d) ==
    LET g == GCD(Abs(n), Abs(d))
        s == IF d < 0 THEN -1 ELSE 1
    IN  IF n = 0 THEN <<0, 1>> ELSE <<(s * n) \div g, (s * d) \div g>>

RInt(k) == <<k, 1>>
RZero == <<0, 1>>
ROne == <<1, 1>>
RAdd(a, b) == R(a[1] * b[2] + b[1] * a[2], a[2] * b[2])
RSub(a, b) == R(a[1] * b[2] - b[1] * a[2], a[2] * b[2])
RMul(a, b) == R(a[1] * b[1], a[2] * b[2])
RDiv(a, b) == R(a[1] * b[2], a[2] * b[1])
RLt(a, b) == a[1] * b[2] < b[1] * a[2]
RLe(a, b) == a[1] * b[2] <= b[1] * a[2]
RMin2(a, b) == IF RLe(a, b) THEN a ELSE b
RMax2(a, b) == IF RLe(a, b) THEN b ELSE a
RMinOf(S) == CHOOSE m \in S : \A x \in S : RLe(m, x)
RMaxOf(S) == CHOOSE m \in S : \A x \in S : RLe(x, m)
\* Series.clip(lo, hi) / max(lo, min(hi, x))
RClip(x, lo, hi) == RMax2(lo, RMin2(hi, x))

RECURSIVE Column(_, _)
\* the values f[1..n] as a list
Column(f, n) == IF n = 0 THEN <<>> ELSE Append(Column(f, n - 1), f[n])

RECURSIVE RSum(_, _)
\* sum of f[k] for k in S
RSum(f, S) ==
    IF S = {} THEN RZero
    ELSE LET k == CHOOSE x \in S : TRUE IN RAdd(f[k], RSum(f, S \ {k}))

(***************************************************************************)
(* Bounds of the model                                                     *)
(***************************************************************************)
\* longest reranker input pair list explored
MaxPairs == 3
\* largest JD group handed to the min-max normalization on its own
MaxGroup == 3
\* most experience items of one CV
MaxItems == 2
\* most operations on the skill ontology in one behaviour
MaxOps == 5
\* most comma-separated items of a JD requirements string
MaxTokens == 3
\* dimension of the embedding vectors
EmbeddingDim == 2

(***************************************************************************)
(* State                                                                   *)
(***************************************************************************)
VARIABLES
    \* run_full_pipeline (reranking.py)
    stage,           \* position of run_full_pipeline
    reranker_input,  \* match_results/reranker_input.csv
    features_file,   \* rerank_results/reranker_features.csv
    scored,          \* the frame compute_linear_score returns
    \* GET/POST /api/match_cv_jd (single_match.py)
    data,            \* what load_all_data returns: the ids of the four tables
    request,         \* the user_id and jd_id of the request, and its cosine
    response,        \* the HTTP response, or None while there is none
    \* a function of the normalizer or of the feature engine called on its own
    call,            \* [fn |-> its name, arg |-> its argument]
    ret,             \* [value |-> what it returned], or None before the call
    \* the skill ontology of the normalizer
    ontology_file,   \* unmapped_skills.skills of skill_ontology.json
    ontology,        \* the SkillOntology object, or None before the first load
    log,             \* history: the operations on the ontology, or the
                     \* evaluations of the years of experience, so far
    \* the dataset builders (jd_json_to_dataset_processor.py,
    \* cv_json_to_dataset_processor.py)
    json_folder,     \* the JSON files of the input folder
    dataset_csv,     \* the rows of the dataset CSV, or None while there is no file
    \* the backend (app/api/parse.py, app/api/jd.py)
    documents,       \* the committed rows of the documents table, in commit order
    sessions,        \* each call of _save_parsed_cv_to_db: its position, its
                     \* transaction
    batch_status,    \* _batch_status
    invocations      \* each invocation of the batch pipeline: its position

rankVars == <<stage, reranker_input, features_file, scored>>
matchVars == <<data, request, response>>
callVars == <<call, ret>>
ontVars == <<ontology_file, ontology, log>>
builderVars == <<json_folder, dataset_csv>>
dbVars == <<documents, sessions>>
batchVars == <<batch_status, invocations>>
vars == <<rankVars, matchVars, callVars, ontVars, builderVars, dbVars, batchVars>>

\* the value of a variable that holds nothing (yet)
None == [none |-> TRUE]

\* a component that takes no part in the specification being checked
RankIdle ==
    stage = "off" /\ reranker_input = <<>> /\ features_file = <<>> /\ scored = <<>>
MatchIdle == data = None /\ request = None /\ response = None
CallIdle == call = None /\ ret = None
OntologyIdle == ontology_file = <<>> /\ ontology = None /\ log = <<>>
BuilderIdle == json_folder = {} /\ dataset_csv = None
DbIdle == documents = <<>> /\ sessions = <<>>
BatchIdle == batch_status = None /\ invocations = <<>>

(***************************************************************************)
(* reranking.py: configuration                                             *)
(***************************************************************************)
\* Config.SENIORITY_LEVELS, with dict.get(..., 0) for anything else
SENIORITY_LEVELS == [junior |-> 1, mid |-> 2, senior |-> 3]

get_seniority_numeric(seniority) ==
    IF seniority \in DOMAIN SENIORITY_LEVELS THEN SENIORITY_LEVELS[seniority] ELSE 0

EXPERIENCE_GAP_PENALTY_FACTOR == R(1, 10)
EXPERIENCE_EXTRA_BONUS_FACTOR == R(2, 100)
\* Config.EXPERIENCE_EXTRA_CAP, in tenths of a year
EXPERIENCE_EXTRA_CAP == 50
\* a boost that takes away what TAG_BOOST gives
TagPenalty == R(-5, 100)

TAG_BOOST == R(5, 100)

\* LinearConfig.WEIGHTS, in hundredths
WEIGHTS ==
    [ cosine_similarity_normalized   |-> 30,
      skill_overlap_core_norm        |-> 15,
      skill_coverage_total           |-> 5,
      skill_overlap_nice_norm        |-> 5,
      experience_meets_requirement   |-> 15,
      experience_bonus               |-> 5,
      seniority_match                |-> 15,
      role_similarity_jaccard        |-> 5,
      role_coherent                  |-> 5,
      must_have_missing              |-> -5,
      experience_penalty_soft        |-> -10,
      experience_significantly_under |-> -10,
      seniority_mismatch_strong      |-> -15,
      seniority_underskilled         |-> -5 ]

(***************************************************************************)
(* normalizzatore.py: seniority from years (tenths of a year)              *)
(***************************************************************************)
infer_seniority(years) ==
    IF years < 20 THEN "junior" ELSE IF years < 50 THEN "mid" ELSE "senior"

(***************************************************************************)
(* Strings: a string is a sequence of characters                           *)
(***************************************************************************)
UpperCase == <<"A", "B", "C", "D", "E", "F", "G", "H", "I", "J", "K", "L", "M", "N",
              "O", "P", "Q", "R", "S", "T", "U", "V", "W", "X", "Y", "Z">>
LowerCase == <<"a", "b", "c", "d", "e", "f", "g", "h", "i", "j", "k", "l", "m", "n",
              "o", "p", "q", "r", "s", "t", "u", "v", "w", "x", "y", "z">>
LowerChar(c) ==
    IF \E k \in DOMAIN UpperCase : UpperCase[k] = c
    THEN LowerCase[CHOOSE k \in DOMAIN UpperCase : UpperCase[k] = c] ELSE c
UpperChar(c) ==
    IF \E k \in DOMAIN LowerCase : LowerCase[k] = c
    THEN UpperCase[CHOOSE k \in DOMAIN LowerCase : LowerCase[k] = c] ELSE c
lower(str) == [i \in DOMAIN str |-> LowerChar(str[i])]

RECURSIVE lstripChars(_)
lstripChars(str) ==
    IF str # <<>> /\ Head(str) = " " THEN lstripChars(Tail(str)) ELSE str

RECURSIVE rstripChars(_)
rstripChars(str) ==
    IF str # <<>> /\ str[Len(str)] = " "
    THEN rstripChars(SubSeq(str, 1, Len(str) - 1)) ELSE str

\* keyword in sen_lower
Contains(keyword, str) ==
    \E i \in 0..(Len(str) - Len(keyword)) : SubSeq(str, i + 1, i + Len(keyword)) = keyword

DigitChars == <<"0", "1", "2", "3", "4", "5", "6", "7", "8", "9">>
IsDigit(c) == \E d \in DOMAIN DigitChars : DigitChars[d] = c
DigitValue(c) == (CHOOSE d \in DOMAIN DigitChars : DigitChars[d] = c) - 1

RECURSIVE int(_)
int(digits) ==
    IF digits = <<>> THEN 0
    ELSE int(SubSeq(digits, 1, Len(digits) - 1)) * 10 + DigitValue(digits[Len(digits)])

\* the last position of the run of characters satisfying a test that starts
\* at p (p - 1 when the run is empty)
RECURSIVE DigitsEnd(_, _)
DigitsEnd(str, p) ==
    IF p <= Len(str) /\ IsDigit(str[p]) THEN DigitsEnd(str, p + 1) ELSE p - 1

RECURSIVE BlanksEnd(_, _)
BlanksEnd(str, p) ==
    IF p <= Len(str) /\ str[p] = " " THEN BlanksEnd(str, p + 1) ELSE p - 1

StartsWith(str, word, p) ==
    /\ p + Len(word) - 1 <= Len(str)
    /\ SubSeq(str, p, p + Len(word) - 1) = word

\* re.search(r'\d+\+?\s*(years?|anni)', s) finds a match
is_years_annotation(str) ==
    \E p \in DOMAIN str :
        /\ IsDigit(str[p])
        /\ LET q == DigitsEnd(str, p)
               r == IF q + 1 <= Len(str) /\ str[q + 1] = "+" THEN q + 1 ELSE q
               u == BlanksEnd(str, r + 1) + 1
           IN  \/ StartsWith(str, <<"y", "e", "a", "r">>, u)
               \/ StartsWith(str, <<"a", "n", "n", "i">>, u)

(***************************************************************************)
(* The normalized datasets the batch reads.  Skills are the parsed,         *)
(* lower-cased tokens; title words are small integers standing for them.   *)
(***************************************************************************)
SkillNames ==
    << <<"p", "y", "t", "h", "o", "n">>, <<"s", "q", "l">>, <<"d", "o", "c", "k", "e", "r">>,
       <<"a", "w", "s">>, <<"s", "p", "a", "r", "k">>, <<"r", "u", "s", "t">> >>
Sk(S) == {SkillNames[k] : k \in S}

CvRow(years, skills, role, women, prot) ==
    [ years_of_experience |-> years,
      inferred_seniority  |-> infer_seniority(years),
      skills              |-> skills,
      role                |-> role,
      has_summary         |-> TRUE,
      has_education       |-> TRUE,
      has_languages       |-> (skills # {}),
      tag_women           |-> women,
      tag_protected_category |-> prot ]

Users == {"u1", "u2", "u3", "u4"}

cv_data ==
    [ u \in Users |->
        CASE u = "u1" -> CvRow(100, Sk(1..5), {1}, TRUE, TRUE)
          [] u = "u2" -> CvRow(99, Sk(1..5), {1}, TRUE, TRUE)
          [] u = "u3" -> CvRow(0, {}, {}, FALSE, FALSE)
          [] OTHER    -> CvRow(100, Sk({6}), {1}, TRUE, TRUE) ]

JdIds == {1, 2}

jd_data ==
    [ j \in JdIds |->
        IF j = 1
        THEN [ min_experience_years_normalized |-> 100,
               constraints_seniority_normalized |-> "senior",
               requirements |-> Sk(1..5), nice_to_have |-> Sk({6}),
               title |-> {1} ]
        ELSE [ min_experience_years_normalized |-> 30,
               constraints_seniority_normalized |-> "mid",
               requirements |-> Sk({1, 2}), nice_to_have |-> Sk({3}),
               title |-> {1, 2} ] ]

\* cosine similarities of the pair list, in hundredths
CosValues == {20, 80}

(***************************************************************************)
(* reranking.py: feature engine                                            *)
(***************************************************************************)
Bit(b) == IF b THEN 1 ELSE 0
RBit(b) == IF b THEN ROne ELSE RZero
\* a ratio that gives 1 to an empty denominator
RatioOne(k, n) == IF n = 0 THEN ROne ELSE R(k, n)
Ratio(k, n) == IF n = 0 THEN RZero ELSE R(k, n)

\* indices of the rows of df that are in the group of row i (groupby('jd_id'))
Group(df, i) == {k \in DOMAIN df : df[k].jd_id = df[i].jd_id}

\* compute_semantic_features.normalize_within_group, for member i of group G
MidpointZero(vals, G, i) ==
    LET mn == RMinOf({vals[k] : k \in G})
        mx == RMaxOf({vals[k] : k \in G})
    IN  IF mx = mn THEN RZero ELSE RDiv(RSub(vals[i], mn), RSub(mx, mn))

normalize_within_group(vals, G, i) ==
    LET mn == RMinOf({vals[k] : k \in G})
        mx == RMaxOf({vals[k] : k \in G})
    IN  IF mx = mn THEN R(1, 2) ELSE RDiv(RSub(vals[i], mn), RSub(mx, mn))

compute_semantic_features(input, i) ==
    LET raw == Column([k \in DOMAIN input |-> R(input[k].cosine_similarity, 100)],
                      Len(input))
    IN  [ cosine_similarity_raw |-> raw[i],
          cosine_similarity_normalized |->
              normalize_within_group(raw, Group(input, i), i) ]

compute_skills_features(cv, jd) ==
    LET cv_skills == cv.skills
        jd_requirements == jd.requirements
        jd_nice_to_have == jd.nice_to_have
        core_overlap == cv_skills \cap jd_requirements
        nice_overlap == cv_skills \cap jd_nice_to_have
        all_jd_skills == jd_requirements \cup jd_nice_to_have
        all_overlap == cv_skills \cap all_jd_skills
    IN  [ skill_overlap_core_abs |-> Cardinality(core_overlap),
          skill_overlap_core_norm |->
              Ratio(Cardinality(core_overlap), Cardinality(jd_requirements)),
          skill_overlap_nice_abs |-> Cardinality(nice_overlap),
          skill_overlap_nice_norm |->
              Ratio(Cardinality(nice_overlap), Cardinality(jd_nice_to_have)),
          skill_coverage_total |->
              Ratio(Cardinality(all_overlap), Cardinality(all_jd_skills)),
          must_have_missing |->
              RInt(Cardinality(jd_requirements) - Cardinality(core_overlap)) ]

\* years are in tenths, so a gap g stands for g/10 years
compute_experience_features(cv, jd) ==
    LET cv_years == cv.years_of_experience
        jd_years == jd.min_experience_years_normalized
        experience_gap == cv_years - jd_years
    IN  [ years_experience_cv |-> cv_years,
          years_required_jd |-> jd_years,
          experience_gap |-> experience_gap,
          experience_gap_abs |-> Abs(experience_gap),
          experience_meets_requirement |-> RBit(cv_years >= jd_years),
          experience_penalty_soft |->
              IF experience_gap < 0
              THEN RMul(R(Abs(experience_gap), 10), EXPERIENCE_GAP_PENALTY_FACTOR)
              ELSE RZero,
          experience_bonus |->
              IF experience_gap > 0
              THEN RMul(R(IF experience_gap < EXPERIENCE_EXTRA_CAP
                          THEN experience_gap ELSE EXPERIENCE_EXTRA_CAP, 10),
                        EXPERIENCE_EXTRA_BONUS_FACTOR)
              ELSE RZero,
          experience_significantly_under |-> RBit(experience_gap <= -20),
          experience_overqualified |-> Bit(experience_gap >= 50) ]

compute_seniority_features(cv, jd) ==
    LET cv_level == get_seniority_numeric(cv.inferred_seniority)
        jd_level == get_seniority_numeric(jd.constraints_seniority_normalized)
        seniority_gap == cv_level - jd_level
    IN  [ seniority_cv_level |-> cv_level,
          seniority_jd_level |-> jd_level,
          seniority_gap |-> seniority_gap,
          seniority_match |-> RBit(cv_level = jd_level),
          seniority_mismatch_strong |-> RBit(Abs(seniority_gap) >= 2),
          seniority_underskilled |-> RBit(cv_level < jd_level) ]

\* cv_tokens, jd_tokens: the word sets left after the stopwords are dropped
compute_role_similarity(cv_tokens, jd_tokens) ==
    IF cv_tokens = {} \/ jd_tokens = {}
    THEN [jaccard |-> RZero, exact_match |-> 0]
    ELSE [ jaccard |-> Ratio(Cardinality(cv_tokens \cap jd_tokens),
                             Cardinality(cv_tokens \cup jd_tokens)),
           exact_match |-> Bit(cv_tokens \cap jd_tokens # {}) ]

compute_role_features(cv, jd) ==
    LET sim == compute_role_similarity(cv.role, jd.title)
    IN  [ role_similarity_jaccard |-> sim.jaccard,
          role_token_match |-> sim.exact_match,
          role_coherent |-> RBit(RLt(R(2, 10), sim.jaccard)) ]

compute_parsing_quality_features(cv) ==
    LET sections == Bit(cv.has_summary) + Bit(cv.role # {}) + Bit(cv.has_education)
                    + Bit(cv.skills # {}) + Bit(cv.has_languages)
    IN  [ cv_completeness_score |-> R(sections, 5),
          cv_skills_count |-> Cardinality(cv.skills) ]

\* build_all_features: one feature row per pair, in the order of the pair list;
\* @@ joins the column blocks (pd.concat(axis=1))
build_all_features(input) ==
    [ i \in DOMAIN input |->
        LET cv == cv_data[input[i].user_id]
            jd == jd_data[input[i].jd_id]
        IN  [ jd_id |-> input[i].jd_id,
              user_id |-> input[i].user_id,
              retrieval_rank |-> input[i].rank ]
            @@ compute_semantic_features(input, i)
            @@ compute_skills_features(cv, jd)
            @@ compute_experience_features(cv, jd)
            @@ compute_seniority_features(cv, jd)
            @@ compute_role_features(cv, jd)
            @@ compute_parsing_quality_features(cv) ]

(***************************************************************************)
(* reranking.py: DEI adjustment                                            *)
(***************************************************************************)
\* add_dei_tags: a tag cell is True or empty; notna() makes it 1 or 0
add_dei_tags(features) ==
    [ i \in DOMAIN features |->
        LET cv == cv_data[features[i].user_id]
        IN  features[i] @@
            [ tag_women |-> Bit(cv.tag_women),
              tag_protected_category |-> Bit(cv.tag_protected_category),
              dei_tag_count |-> Bit(cv.tag_women) + Bit(cv.tag_protected_category) ] ]

compute_dei_score(features) ==
    [ i \in DOMAIN features |->
        LET dei_boost == RMul(RInt(features[i].dei_tag_count), TAG_BOOST)
        IN  features[i] @@
            [ dei_boost |-> dei_boost,
              score_with_dei |->
                  RClip(RAdd(features[i].cosine_similarity_normalized, dei_boost),
                        RZero, ROne) ] ]

\* groupby('jd_id')[col].rank(method='min', ascending=False)
RankMin(df, vals, i) ==
    1 + Cardinality({k \in Group(df, i) : RLt(vals[i], vals[k])})

\* groupby('jd_id')[col].rank(method='first', ascending=False) of row i:
\* larger values first, equal values in the order of the rows
RankFirst(df, vals, i) ==
    1 + Cardinality({k \in Group(df, i) : RLt(vals[i], vals[k])})
      + Cardinality({k \in Group(df, i) : vals[k] = vals[i] /\ k < i})

rerank_with_dei(features) ==
    LET swd == [k \in DOMAIN features |-> features[k].score_with_dei]
    IN  [ i \in DOMAIN features |->
            LET rank_with_dei == RankFirst(features, swd, i)
            IN  features[i] @@
                [ rank_original |-> features[i].retrieval_rank,
                  rank_with_dei |-> rank_with_dei,
                  rank_delta |-> features[i].retrieval_rank - rank_with_dei ] ]

\* a frame left in the order it has
KeepOrder(df) == df

\* features.sort_values(['jd_id', 'rank_with_dei']); rank_with_dei is unique
\* within a jd_id, so no two rows have the same key (rows with the same key
\* would keep their order)
sort_values(df) ==
    LET Before(k, i) ==
            \/ df[k].jd_id < df[i].jd_id
            \/ df[k].jd_id = df[i].jd_id /\ df[k].rank_with_dei < df[i].rank_with_dei
            \/ df[k].jd_id = df[i].jd_id /\ df[k].rank_with_dei = df[i].rank_with_dei
               /\ k < i
        Pos(i) == 1 + Cardinality({k \in DOMAIN df : Before(k, i)})
    IN  [ p \in DOMAIN df |-> df[CHOOSE i \in DOMAIN df : Pos(i) = p] ]

build_dei_adjusted_features(features) ==
    sort_values(rerank_with_dei(compute_dei_score(add_dei_tags(features))))

(***************************************************************************)
(* reranking.py: linear scorer                                             *)
(***************************************************************************)
\* the weighted sum over the features of WEIGHTS that are columns of the row
linear_score_raw(row) ==
    LET Present == {f \in DOMAIN WEIGHTS : f \in DOMAIN row}
        contribution == [f \in Present |-> RMul(R(WEIGHTS[f], 100), row[f])]
    IN  RSum(contribution, Present)

\* compute_linear_score.normalize_group, for member i of group G
normalize_group(vals, G, i) ==
    LET mn == RMinOf({vals[k] : k \in G})
        mx == RMaxOf({vals[k] : k \in G})
    IN  IF mx = mn THEN R(1, 2) ELSE RDiv(RSub(vals[i], mn), RSub(mx, mn))

NoClip(x) == x

\* (linear_score + dei_boost).clip(0, 1)
clip01(x) == RClip(x, RZero, ROne)

compute_linear_score(df) ==
    LET raw == Column([k \in DOMAIN df |-> linear_score_raw(df[k])], Len(df))
        lin == Column([k \in DOMAIN df |-> normalize_group(raw, Group(df, k), k)], Len(df))
        fin == Column([k \in DOMAIN df |-> clip01(RAdd(lin[k], df[k].dei_boost))], Len(df))
    IN  [ i \in DOMAIN df |->
            df[i] @@
            [ linear_score_raw |-> raw[i],
              linear_score |-> lin[i],
              final_score |-> fin[i],
              final_rank |-> RankFirst(df, fin, i) ] ]

(***************************************************************************)
(* run_full_pipeline: the three stages, each reading the file the stage    *)
(* before it wrote                                                         *)
(***************************************************************************)
PairRows == [jd_id : JdIds, user_id : Users, cosine_similarity : CosValues]

\* pair lists of at most MaxPairs rows, one row per (jd_id, user_id)
PairLists ==
    { s \in UNION {[1..n -> PairRows] : n \in 1..MaxPairs} :
        \A i, k \in DOMAIN s :
            (s[i].jd_id = s[k].jd_id /\ s[i].user_id = s[k].user_id) => i = k }

\* the rank column of reranker_input.csv: the position upstream retrieval gave
WithRank(s) == [i \in DOMAIN s |-> s[i] @@ [rank |-> i]]

InitRank ==
    /\ MatchIdle /\ CallIdle /\ OntologyIdle
    /\ BuilderIdle /\ DbIdle /\ BatchIdle
    /\ stage = "input"
    /\ reranker_input \in {WithRank(s) : s \in PairLists}
    /\ features_file = <<>>
    /\ scored = <<>>

BuildAllFeatures ==
    /\ stage = "input"
    /\ features_file' = build_all_features(reranker_input)
    /\ stage' = "features"
    /\ UNCHANGED <<reranker_input, scored, matchVars, callVars, ontVars,
                 builderVars, dbVars, batchVars>>

BuildDeiAdjustedFeatures ==
    /\ stage = "features"
    /\ features_file' = build_dei_adjusted_features(features_file)
    /\ stage' = "dei"
    /\ UNCHANGED <<reranker_input, scored, matchVars, callVars, ontVars,
                 builderVars, dbVars, batchVars>>

RunReranker ==
    /\ stage = "dei"
    /\ scored' = compute_linear_score(features_file)
    /\ stage' = "scored"
    /\ UNCHANGED <<reranker_input, features_file, matchVars, callVars, ontVars,
                 builderVars, dbVars, batchVars>>

NextRank == BuildAllFeatures \/ BuildDeiAdjustedFeatures \/ RunReranker

SpecRank == InitRank /\ [][NextRank]_vars

(***************************************************************************)
(* Properties of the batch pipeline                                        *)
(***************************************************************************)
Scored == stage = "scored"

\* the place of a scored row's pair in the reranker input pair list
InputPos(row) ==
    CHOOSE p \in DOMAIN reranker_input :
        /\ reranker_input[p].jd_id = row.jd_id
        /\ reranker_input[p].user_id = row.user_id

\* C1: after compute_linear_score the final_rank values of every JD group of N
\* rows are exactly 1..N, no two rows of a group share one, and a row with a
\* strictly higher final_score never has the larger final_rank.
C1_DenseRanks ==
    Scored =>
        \A i \in DOMAIN scored :
            LET G == Group(scored, i)
            IN  /\ {scored[k].final_rank : k \in G} = 1..Cardinality(G)
                /\ \A k \in G : k # i => scored[k].final_rank # scored[i].final_rank
                /\ \A k \in G :
                       RLt(scored[k].final_score, scored[i].final_score)
                           => scored[i].final_rank < scored[k].final_rank

\* a group of three with two equal final scores and a third that differs
C1_Witness ==
    /\ Scored
    /\ \E i, k, m \in DOMAIN scored :
           /\ i # k /\ k \in Group(scored, i) /\ m \in Group(scored, i)
           /\ scored[i].final_score = scored[k].final_score
           /\ scored[m].final_score # scored[i].final_score

\* C3 as stated: of two candidates of a JD with equal final_score, the one
\* first in the reranker input pair list has the smaller final_rank.
C3_TieByInputOrder ==
    Scored =>
        \A i \in DOMAIN scored : \A k \in Group(scored, i) :
            (/\ scored[i].final_score = scored[k].final_score
             /\ InputPos(scored[i]) < InputPos(scored[k]))
                => scored[i].final_rank < scored[k].final_rank

\* C3 amended: of two candidates of a JD with equal final_score, the one with
\* the higher score_with_dei has the smaller final_rank, and only when
\* score_with_dei is equal too does the place in the input pair list decide.
C3_TieByDeiRankThenInputOrder ==
    Scored =>
        \A i \in DOMAIN scored : \A k \in Group(scored, i) :
            (/\ scored[i].final_score = scored[k].final_score
             /\ \/ RLt(scored[k].score_with_dei, scored[i].score_with_dei)
                \/ /\ scored[k].score_with_dei = scored[i].score_with_dei
                   /\ InputPos(scored[i]) < InputPos(scored[k]))
                => scored[i].final_rank < scored[k].final_rank

\* a final_score tie in which the later pair of the input has the higher
\* score_with_dei and is ranked first
C3_Witness ==
    /\ Scored
    /\ \E i \in DOMAIN scored : \E k \in Group(scored, i) :
           /\ scored[i].final_score = scored[k].final_score
           /\ RLt(scored[k].score_with_dei, scored[i].score_with_dei)
           /\ InputPos(scored[k]) < InputPos(scored[i])
           /\ scored[i].final_rank < scored[k].final_rank

\* two CV rows that differ in years_of_experience and in nothing else
SameButYears(a, b) ==
    /\ a.years_of_experience # b.years_of_experience
    /\ [a EXCEPT !.years_of_experience = 0] = [b EXCEPT !.years_of_experience = 0]

\* C4: of two candidates of a JD group that are identical except for
\* years_of_experience, one meeting the JD's minimum and one not, the one that
\* meets it has the strictly smaller final_rank.
C4_MeetingRequirementRanksAbove ==
    Scored =>
        \A i \in DOMAIN scored : \A k \in Group(scored, i) :
            (/\ SameButYears(cv_data[scored[i].user_id], cv_data[scored[k].user_id])
             /\ scored[i].cosine_similarity_raw = scored[k].cosine_similarity_raw
             /\ scored[i].experience_meets_requirement = ROne
             /\ scored[k].experience_meets_requirement = RZero)
                => scored[i].final_rank < scored[k].final_rank

(***************************************************************************)
(* single_match.py: the single-pair match service                          *)
(***************************************************************************)
\* Config.WEIGHTS of single_match.py, in thousandths
SINGLE_WEIGHTS ==
    [ cosine_similarity_normalized |-> 450,
      skill_overlap_core_norm      |-> 300,
      skill_coverage_total         |-> 150,
      skill_overlap_nice_norm      |-> 75,
      experience_meets_requirement |-> 300,
      seniority_match              |-> 75,
      role_similarity_jaccard      |-> 100,
      role_coherent                |-> 100,
      must_have_missing            |-> -75,
      experience_penalty_soft      |-> -150,
      seniority_mismatch_strong    |-> -225,
      seniority_underskilled       |-> -75 ]

DEI_TAG_BOOST == R(5, 100)

\* round(x, 4): the nearest multiple of 1/10000, a half going to the even one
Round4(x) ==
    LET n == x[1] * 10000
        d == x[2]
        q == n \div d
        rem2 == 2 * (n - q * d)
    IN  IF rem2 < d THEN R(q, 10000)
        ELSE IF rem2 > d THEN R(q + 1, 10000)
        ELSE IF q % 2 = 0 THEN R(q, 10000) ELSE R(q + 1, 10000)

\* compute_features: the weighted features and the DEI columns of one pair.
\* The raw cosine is used as the normalized one.
single_compute_features(cv, jd, cosine_sim) ==
    LET jd_req == {s \in jd.requirements : ~is_years_annotation(s)}
        core_overlap == cv.skills \cap jd_req
        nice_overlap == cv.skills \cap jd.nice_to_have
        all_jd == jd_req \cup jd.nice_to_have
        all_overlap == cv.skills \cap all_jd
        jd_requirements_count == Cardinality(jd_req)
        gap == cv.years_of_experience - jd.min_experience_years_normalized
        cv_level == get_seniority_numeric(cv.inferred_seniority)
        jd_level == get_seniority_numeric(jd.constraints_seniority_normalized)
        sen_gap == cv_level - jd_level
        role_sim == compute_role_similarity(cv.role, jd.title).jaccard
        dei_tag_count == Bit(cv.tag_women) + Bit(cv.tag_protected_category)
    IN  [ cosine_similarity_raw |-> cosine_sim,
          cosine_similarity_normalized |-> cosine_sim,
          skill_overlap_core_norm |->
              Ratio(Cardinality(core_overlap), jd_requirements_count),
          skill_overlap_nice_norm |->
              Ratio(Cardinality(nice_overlap), Cardinality(jd.nice_to_have)),
          skill_coverage_total |->
              Ratio(Cardinality(all_overlap), Cardinality(all_jd)),
          must_have_missing |->
              RInt(jd_requirements_count - Cardinality(core_overlap)),
          experience_meets_requirement |-> RBit(gap >= 0),
          experience_penalty_soft |->
              IF gap < 0 THEN RMul(R(Abs(gap), 10), EXPERIENCE_GAP_PENALTY_FACTOR)
              ELSE RZero,
          seniority_match |-> RBit(cv_level = jd_level),
          seniority_mismatch_strong |-> RBit(Abs(sen_gap) >= 2),
          seniority_underskilled |-> RBit(cv_level < jd_level),
          role_similarity_jaccard |-> role_sim,
          role_coherent |-> RBit(RLt(R(2, 10), role_sim)),
          dei_tag_count |-> dei_tag_count,
          dei_boost |-> RMul(RInt(dei_tag_count), DEI_TAG_BOOST) ]

\* max(0, min(1, x))
clamp01(x) == RMax2(RZero, RMin2(ROne, x))

compute_score(features) ==
    LET contrib == [f \in DOMAIN SINGLE_WEIGHTS |->
                        RMul(R(SINGLE_WEIGHTS[f], 1000), features[f])]
        score == RSum(contrib, DOMAIN SINGLE_WEIGHTS)
        final == clamp01(RAdd(score, features.dei_boost))
    IN  [ linear_score_raw |-> Round4(score),
          linear_score_normalized |-> Round4(score),
          dei_boost |-> Round4(features.dei_boost),
          final_score |-> Round4(final) ]

\* validate_inputs: (is_valid, the id the message names)
validate_inputs(user_id, jd_id, d) ==
    IF user_id \notin d.cv_emb_ids /\ user_id \notin d.cv_dataset_ids
    THEN [is_valid |-> FALSE, kind |-> "USER_ID", id |-> user_id]
    ELSE IF jd_id \notin d.jd_emb_ids /\ jd_id \notin d.jd_dataset_ids
    THEN [is_valid |-> FALSE, kind |-> "JD_ID", id |-> jd_id]
    ELSE [is_valid |-> TRUE]

\* an id present in either table passes validation

\* compare_cv_with_jd: a result, or the exception it raises.  A lookup of an
\* id that has no embedding raises KeyError, a dataset without the row
\* raises IndexError at .iloc[0].
compare_cv_with_jd(user_id, jd_id, cosine, d) ==
    LET v == validate_inputs(user_id, jd_id, d)
    IN  IF ~v.is_valid
        THEN [raised |-> "ValueError", kind |-> v.kind, id |-> v.id]
        ELSE IF user_id \notin d.cv_emb_ids \/ jd_id \notin d.jd_emb_ids
        THEN [raised |-> "KeyError"]
        ELSE IF user_id \notin d.cv_dataset_ids \/ jd_id \notin d.jd_dataset_ids
        THEN [raised |-> "IndexError"]
        ELSE LET features == single_compute_features(cv_data[user_id],
                                                     jd_data[jd_id], cosine)
                 score == compute_score(features)
             IN  [ raised |-> "none",
                   user_id |-> user_id,
                   jd_id |-> jd_id,
                   cosine_similarity |-> features.cosine_similarity_raw,
                   final_score |-> score.final_score ]

\* match_cv_jd / match_cv_jd_post: ValueError -> 404, any other -> 500
match_cv_jd(user_id, jd_id, cosine, d) ==
    LET result == compare_cv_with_jd(user_id, jd_id, cosine, d)
    IN  IF result.raised = "none"
        THEN [status |-> 200, body |-> result]
        ELSE IF result.raised = "ValueError"
        THEN [status |-> 404, kind |-> result.kind, id |-> result.id]
        ELSE [status |-> 500, error |-> result.raised]

\* ids a request may carry: the known ones and one unknown
RequestUsers == Users \cup {"u9"}
RequestJds == JdIds \cup {9}
\* cosine of the two stored embeddings, in hundredths
EmbeddingCosines == {-50, 20, 100}

\* a table holding every id, or every id but one
Tables(ids) == {ids} \cup {ids \ {x} : x \in ids}

InitMatch ==
    /\ RankIdle /\ CallIdle /\ OntologyIdle
    /\ BuilderIdle /\ DbIdle /\ BatchIdle
    /\ data \in [ cv_emb_ids : Tables(Users), cv_dataset_ids : Tables(Users),
                  jd_emb_ids : Tables(JdIds), jd_dataset_ids : Tables(JdIds) ]
    /\ request \in [user_id : RequestUsers, jd_id : RequestJds,
                    cosine : EmbeddingCosines]
    /\ response = None

MatchCvJd ==
    /\ request # None
    /\ response = None
    /\ response' = match_cv_jd(request.user_id, request.jd_id,
                               R(request.cosine, 100), data)
    /\ UNCHANGED <<data, request, rankVars, callVars, ontVars,
                 builderVars, dbVars, batchVars>>

NextMatch == MatchCvJd

SpecMatch == InitMatch /\ [][NextMatch]_vars

\* the batch pipeline and the single-pair service, each on its own state
InitScore == InitRank \/ InitMatch
NextScore == NextRank \/ NextMatch
SpecScore == InitScore /\ [][NextScore]_vars

(***************************************************************************)
(* Properties of the scores and of the single-pair service                 *)
(***************************************************************************)
Responded == response # None
InUnit(x) == RLe(RZero, x) /\ RLe(x, ROne)

\* C2: every final_score lies in [0,1]: each row the batch scorer produces,
\* and the result the single-pair service returns.
C2_FinalScoreInUnitInterval ==
    /\ Scored => \A i \in DOMAIN scored : InUnit(scored[i].final_score)
    /\ (Responded /\ response.status = 200) => InUnit(response.body.final_score)

\* a batch row whose normalized score plus DEI boost exceeds 1 and is clipped
C2_Witness ==
    /\ Scored
    /\ \E i \in DOMAIN scored :
           /\ RLt(ROne, RAdd(scored[i].linear_score, scored[i].dei_boost))
           /\ scored[i].final_score = ROne

\* a single-pair result whose weighted sum plus DEI boost exceeds 1
C2_SingleClamped ==
    /\ Responded /\ response.status = 200
    /\ response.body.final_score = ROne
    /\ response.body.cosine_similarity = ROne

KnownIn(id, emb, dataset) == id \in emb /\ id \in dataset

\* C10: a match result is returned only when user_id and jd_id are known, and
\* a request with an id absent from the embeddings table or from the
\* normalized dataset gets the not-found answer (404) naming that id.
C10_MissingIdIsNotFound ==
    Responded =>
        LET userKnown == KnownIn(request.user_id, data.cv_emb_ids, data.cv_dataset_ids)
            jdKnown == KnownIn(request.jd_id, data.jd_emb_ids, data.jd_dataset_ids)
        IN  /\ response.status = 200 => userKnown /\ jdKnown
            /\ ~(userKnown /\ jdKnown) =>
                   /\ response.status = 404
                   /\ response.id = IF ~userKnown THEN request.user_id
                                    ELSE request.jd_id

(***************************************************************************)
(* The per-JD-group min-max normalization on its own: of the cosine        *)
(* similarity (compute_semantic_features) and of the raw linear score      *)
(* (compute_linear_score), applied to one group and then to its own output *)
(***************************************************************************)
\* raw values of a group, in hundredths: cosines and weighted sums
RawValues == {-35, 0, 42, 80}

GroupsOfRaw == UNION {[1..n -> {R(v, 100) : v \in RawValues}] : n \in 1..MaxGroup}

\* the transform of one whole group by either normalizer
NormalizeColumn(fn, vals) ==
    [ i \in DOMAIN vals |->
        IF fn = "normalize_within_group"
        THEN normalize_within_group(vals, DOMAIN vals, i)
        ELSE normalize_group(vals, DOMAIN vals, i) ]

InitNorm ==
    /\ RankIdle /\ MatchIdle /\ OntologyIdle
    /\ BuilderIdle /\ DbIdle /\ BatchIdle
    /\ call \in [fn : {"normalize_within_group", "normalize_group"}, arg : GroupsOfRaw]
    /\ ret = None

Normalize ==
    /\ call # None /\ call.fn \in {"normalize_within_group", "normalize_group"}
    /\ ret = None
    /\ ret' = [value |-> NormalizeColumn(call.fn, call.arg)]
    /\ UNCHANGED <<call, rankVars, matchVars, ontVars,
                 builderVars, dbVars, batchVars>>

NormalizeAgain ==
    /\ call # None /\ call.fn \in {"normalize_within_group", "normalize_group"}
    /\ ret # None /\ "again" \notin DOMAIN ret
    /\ ret' = [value |-> ret.value, again |-> NormalizeColumn(call.fn, ret.value)]
    /\ UNCHANGED <<call, rankVars, matchVars, ontVars,
                 builderVars, dbVars, batchVars>>

NextNorm == Normalize \/ NormalizeAgain

SpecNorm == InitNorm /\ [][NextNorm]_vars

\* C5: the group normalization gives every member exactly 1/2 when all raw
\* values are equal, otherwise 0 to the group minimum and 1 to the maximum
\* (the others in between, in the order of the raw values), and applied to
\* its own output it returns that output.
C5_MinMaxNormalization ==
    (ret # None /\ "again" \in DOMAIN ret) =>
        LET raw == call.arg
            out == ret.value
            I == DOMAIN raw
        IN  /\ (\A i, k \in I : raw[i] = raw[k]) => \A i \in I : out[i] = R(1, 2)
            /\ (\E i, k \in I : raw[i] # raw[k]) =>
                   /\ \A i \in I : (\A k \in I : RLe(raw[i], raw[k])) => out[i] = RZero
                   /\ \A i \in I : (\A k \in I : RLe(raw[k], raw[i])) => out[i] = ROne
                   /\ \A i, k \in I : RLt(raw[i], raw[k]) => RLt(out[i], out[k])
            /\ ret.again = out

\* a group of equal values and a group with a minimum, a maximum and a value
\* strictly between them have each been normalized twice
C5_Witness ==
    /\ ret # None /\ "again" \in DOMAIN ret
    /\ Len(call.arg) >= 3
    /\ \/ \A i \in DOMAIN call.arg : call.arg[i] = R(42, 100)
       \/ \E i \in DOMAIN ret.value :
              RLt(RZero, ret.value[i]) /\ RLt(ret.value[i], ROne)
                  /\ ret.value[i] # R(1, 2)

(***************************************************************************)
(* Years of experience of a CV: the dataset processor writes the           *)
(* experience column (concatenate_experience), the normalizer reads the    *)
(* bracketed date ranges back (calculate_years_of_experience).  A text is  *)
(* a sequence of tokens; a date is <<year, month, day>>, no date is <<>>.  *)
(***************************************************************************)
Tok(t, v) == [t |-> t, v |-> v]
Punct(t) == Tok(t, 0)

\* a date as the CV parser may write it: "2020", "2020-01", "Jan 2020", ""
DateTexts ==
    {[fmt |-> "Y", y |-> y, m |-> 1] : y \in {2020, 2022}}
        \cup {[fmt |-> "Y-M", y |-> ym[1], m |-> ym[2]] :
                  ym \in {<<2020, 1>>, <<2021, 6>>, <<2022, 1>>}}
        \cup {[fmt |-> "Mon Y", y |-> ym[1], m |-> ym[2]] :
                  ym \in {<<2020, 1>>, <<2022, 7>>}}
        \cup {[fmt |-> "", y |-> 0, m |-> 0]}

DateString(d) ==
    CASE d.fmt = "Y" -> <<Tok("year", d.y)>>
      [] d.fmt = "Y-M" -> <<Tok("year", d.y), Punct("-"), Tok("num", d.m)>>
      [] d.fmt = "Mon Y" -> <<Tok("mon", d.m), Punct(" "), Tok("year", d.y)>>
      [] OTHER -> <<>>

RECURSIVE Join(_, _)
Join(strs, sep) ==
    IF strs = <<>> THEN <<>>
    ELSE IF Len(strs) = 1 THEN strs[1]
    ELSE strs[1] \o sep \o Join(Tail(strs), sep)

ARRAY_SEP == <<Punct(" "), Punct("|"), Punct(" ")>>

concatenate_experience(items) ==
    LET entry(exp) ==
            LET start == DateString(exp.start_date)
                end == IF exp.is_current THEN <<Punct("Present")>>
                       ELSE DateString(exp.end_date)
                period == IF start # <<>>
                          THEN <<Punct(" "), Punct("[")>> \o start
                                   \o <<Punct(" "), Punct("-"), Punct(" ")>> \o end
                                   \o <<Punct("]")>>
                          ELSE <<>>
            IN  <<Punct("title @ company")>> \o period
    IN  Join([i \in DOMAIN items |-> entry(items[i])], ARRAY_SEP)

\* str.split(sep) for a one-token separator
RECURSIVE SplitFrom(_, _, _, _)
SplitFrom(str, sep, i, cur) ==
    IF i > Len(str) THEN <<cur>>
    ELSE IF str[i].t = sep THEN <<cur>> \o SplitFrom(str, sep, i + 1, <<>>)
    ELSE SplitFrom(str, sep, i + 1, Append(cur, str[i]))

split(str, sep) == SplitFrom(str, sep, 1, <<>>)

RECURSIVE lstrip(_)
lstrip(str) ==
    IF str # <<>> /\ Head(str).t = " " THEN lstrip(Tail(str)) ELSE str

RECURSIVE rstrip(_)
rstrip(str) ==
    IF str # <<>> /\ str[Len(str)].t = " "
    THEN rstrip(SubSeq(str, 1, Len(str) - 1)) ELSE str

strip(str) == lstrip(rstrip(str))

\* re.search(r'\[(.*?)\]', exp): <<TRUE, group(1)>>, or <<FALSE, <<>>>>
date_match(exp) ==
    LET opens == {a \in DOMAIN exp :
                      exp[a].t = "[" /\ \E b \in DOMAIN exp : b > a /\ exp[b].t = "]"}
    IN  IF opens = {} THEN <<FALSE, <<>>>>
        ELSE LET a == CHOOSE x \in opens : \A z \in opens : x <= z
                 b == CHOOSE x \in DOMAIN exp :
                          /\ x > a /\ exp[x].t = "]"
                          /\ \A z \in DOMAIN exp : (z > a /\ exp[z].t = "]") => x <= z
             IN  <<TRUE, SubSeq(exp, a + 1, b - 1)>>

\* re.split(r'\s*[-–]\s*', date_range): a cut at every hyphen, the blanks
\* around the hyphen dropped
re_split_hyphen(date_range) ==
    LET raw == split(date_range, "-")
        n == Len(raw)
    IN  [k \in 1..n |->
            LET left == IF k > 1 THEN lstrip(raw[k]) ELSE raw[k]
            IN  IF k < n THEN rstrip(left) ELSE left]

\* parse_date_flexible: "" gives no date, "Present" the current time, a year
\* or a month name and a year the first day of it (default 2000-01-01).  A
\* part of another shape is never parsed: a range with a hyphen inside a
\* date has more than two parts.
parse_date_flexible(date_str, now) ==
    LET str == strip(date_str)
    IN  IF str = <<>> THEN <<>>
        ELSE IF Len(str) = 1 /\ str[1].t = "Present" THEN now
        ELSE IF Len(str) = 1 /\ str[1].t = "year" THEN <<str[1].v, 1, 1>>
        ELSE IF Len(str) = 3 /\ str[1].t = "mon" /\ str[3].t = "year"
             THEN <<str[3].v, str[1].v, 1>>
        ELSE <<>>

\* days of a date since 0001-01-01 (datetime.toordinal)
IsLeap(y) == (y % 4 = 0 /\ y % 100 # 0) \/ y % 400 = 0
DaysBeforeMonth(y, m) ==
    <<0, 31, 59, 90, 120, 151, 181, 212, 243, 273, 304, 334>>[m]
        + (IF m > 2 /\ IsLeap(y) THEN 1 ELSE 0)
toordinal(date) ==
    LET y == date[1] - 1
    IN  y * 365 + (y \div 4) - (y \div 100) + (y \div 400)
            + DaysBeforeMonth(date[1], date[2]) + date[3]

\* round(days / 365.25, 1), in tenths of a year
RoundYears(days) == (days * 80 + 1461) \div 2922

\* the segment's days with the floor left out
KeepNegative(days) == days

\* max(0, years), on the days of the segment
max_zero(days) == IF days > 0 THEN days ELSE 0

RECURSIVE SumDays(_)
SumDays(ds) == IF ds = <<>> THEN 0 ELSE Head(ds) + SumDays(Tail(ds))

\* the result in tenths of a year
calculate_years_of_experience(experience_str, now) ==
    IF experience_str = <<>> THEN 0
    ELSE
        LET experiences == split(experience_str, "|")
            days(exp) ==
                LET m == date_match(exp)
                    parts == re_split_hyphen(m[2])
                IN  IF ~m[1] THEN 0
                    ELSE IF Len(parts) # 2 THEN 0
                    ELSE LET start_date == parse_date_flexible(parts[1], now)
                             end_date == parse_date_flexible(parts[2], now)
                         IN  IF start_date # <<>> /\ end_date # <<>>
                             THEN LET delta == toordinal(end_date) - toordinal(start_date)
                                  IN  max_zero(delta)
                             ELSE 0
        IN  RoundYears(SumDays([i \in DOMAIN experiences |-> days(experiences[i])]))

ExperienceItems ==
    {[start_date |-> s, end_date |-> e, is_current |-> c] :
        s \in DateTexts, e \in DateTexts, c \in BOOLEAN}

\* datetime.now() of the run
NowDates == {<<2026, 11, 1>>, <<2024, 2, 29>>}

InitYears ==
    /\ RankIdle /\ MatchIdle /\ OntologyIdle
    /\ BuilderIdle /\ DbIdle /\ BatchIdle
    /\ \E n \in 1..MaxItems : \E items \in [1..n -> ExperienceItems] :
       \E now \in NowDates :
           call = [fn |-> "calculate_years_of_experience",
                   arg |-> [items |-> items, now |-> now]]
    /\ ret = None

CalculateYearsOfExperience ==
    /\ call # None /\ call.fn = "calculate_years_of_experience"
    /\ ret = None
    /\ ret' = [value |-> calculate_years_of_experience(
                             concatenate_experience(call.arg.items), call.arg.now)]
    /\ UNCHANGED <<call, rankVars, matchVars, ontVars,
                 builderVars, dbVars, batchVars>>

NextYears == CalculateYearsOfExperience

SpecYears == InitYears /\ [][NextYears]_vars

\* the date a written date stands for, <<>> where there is none
DateOf(d) == IF d.fmt = "" THEN <<>> ELSE <<d.y, d.m, 1>>

\* the days an item with a bracketed start and end date stands for
ElapsedDays(exp, now) ==
    LET start == DateOf(exp.start_date)
        end == IF exp.is_current THEN now ELSE DateOf(exp.end_date)
    IN  IF start = <<>> \/ end = <<>> THEN 0
        ELSE IF toordinal(end) > toordinal(start)
             THEN toordinal(end) - toordinal(start) ELSE 0

\* C6: every item with a bracketed start and end date, year-month dates
\* 'YYYY-MM' included, contributes (end - start)/365.25 clamped at 0 to the
\* total, which is rounded to one decimal.
C6_EveryBracketedSegmentCounts ==
    (ret # None /\ call.fn = "calculate_years_of_experience") =>
        ret.value = RoundYears(SumDays(
            [i \in DOMAIN call.arg.items |->
                ElapsedDays(call.arg.items[i], call.arg.now)]))

\* the same for the items that have no hyphen inside a date: these are the
\* ones the code counts
C6_NoInnerHyphenCounts ==
    (/\ ret # None /\ call.fn = "calculate_years_of_experience"
     /\ \A i \in DOMAIN call.arg.items :
            /\ call.arg.items[i].start_date.fmt # "Y-M"
            /\ call.arg.items[i].is_current
                   \/ call.arg.items[i].end_date.fmt # "Y-M") =>
        ret.value = RoundYears(SumDays(
            [i \in DOMAIN call.arg.items |->
                ElapsedDays(call.arg.items[i], call.arg.now)]))

\* 'Senior Dev @ Acme [2020-01 - 2022-01]' has been given 0.0 years
C6_YearMonthSkipped ==
    /\ ret # None /\ call.fn = "calculate_years_of_experience"
    /\ Len(call.arg.items) = 1
    /\ call.arg.items[1] =
           [start_date |-> [fmt |-> "Y-M", y |-> 2020, m |-> 1],
            end_date |-> [fmt |-> "Y-M", y |-> 2022, m |-> 1],
            is_current |-> FALSE]
    /\ ret.value = 0

(***************************************************************************)
(* Seniority normalization (SkillOntology.normalize_seniority).  A string  *)
(* is a sequence of characters.  The seniority_mappings are read from the  *)
(* ontology document, an ordered keyword -> level map.                     *)
(***************************************************************************)
\* re.search(r'(\d+)\+?\s*(years|anni)', str): <<TRUE, group(1)>> of the
\* leftmost match, or <<FALSE, <<>>>>
re_search_years(str) ==
    LET StartsAt(word, p) ==
            /\ p + Len(word) - 1 <= Len(str)
            /\ SubSeq(str, p, p + Len(word) - 1) = word
        MatchAt(p) ==
            /\ IsDigit(str[p])
            /\ LET q == DigitsEnd(str, p)
                   r == IF q + 1 <= Len(str) /\ str[q + 1] = "+" THEN q + 1 ELSE q
                   u == BlanksEnd(str, r + 1) + 1
               IN  \/ StartsAt(<<"y", "e", "a", "r", "s">>, u)
                   \/ StartsAt(<<"a", "n", "n", "i">>, u)
        starts == {p \in DOMAIN str : MatchAt(p)}
    IN  IF starts = {} THEN <<FALSE, <<>>>>
        ELSE LET p == CHOOSE x \in starts : \A z \in starts : x <= z
             IN  <<TRUE, SubSeq(str, p, DigitsEnd(str, p))>>

\* the buckets with both thresholds on the wrong side
YearsInclusive(years) ==
    IF years <= 2 THEN "junior" ELSE IF years <= 5 THEN "mid" ELSE "senior"

years_to_seniority(years) ==
    IF years < 2 THEN "junior" ELSE IF years < 5 THEN "mid" ELSE "senior"

normalize_seniority(seniority_str, seniority_mappings) ==
    IF seniority_str = <<>> THEN "mid"
    ELSE
        LET sen_lower == lstripChars(rstripChars(lower(seniority_str)))
            hits == {k \in DOMAIN seniority_mappings :
                         Contains(seniority_mappings[k].keyword, sen_lower)}
            years_match == re_search_years(sen_lower)
        IN  IF hits # {}
            THEN seniority_mappings[CHOOSE k \in hits : \A z \in hits : k <= z].level
            ELSE IF years_match[1] THEN years_to_seniority(int(years_match[2]))
            ELSE "mid"

\* the words a seniority text is made of
Words ==
    [ none |-> <<>>,
      Senior |-> <<"S", "e", "n", "i", "o", "r">>,
      senior |-> <<"s", "e", "n", "i", "o", "r">>,
      junior |-> <<"j", "u", "n", "i", "o", "r">>,
      sr |-> <<"s", "r", ".">>,
      years |-> <<"y", "e", "a", "r", "s">>,
      Years |-> <<"Y", "e", "a", "r", "s">>,
      anni |-> <<"a", "n", "n", "i">> ]

\* two ontology documents: the keywords in either order, "sr." only in one
SeniorityMappings ==
    { << [name |-> "junior", keyword |-> Words.junior, level |-> "junior"],
         [name |-> "senior", keyword |-> Words.senior, level |-> "senior"],
         [name |-> "sr", keyword |-> Words.sr, level |-> "senior"] >>,
      << [name |-> "senior", keyword |-> Words.senior, level |-> "senior"],
         [name |-> "junior", keyword |-> Words.junior, level |-> "junior"] >> }

KeywordWords == {"none", "Senior", "senior", "junior", "sr"}
UnitWords == {"none", "years", "Years", "anni"}
\* -1: no number written
YearCounts == {-1, 0, 1, 2, 4, 5, 12}

Digits(n) ==
    IF n < 0 THEN <<>>
    ELSE IF n < 10 THEN <<DigitChars[n + 1]>>
    ELSE <<DigitChars[(n \div 10) + 1], DigitChars[(n % 10) + 1]>>

\* "<keyword> <N>[+][ ]<unit> <keyword>[ experience]", every part optional
SeniorityTexts ==
    [before : KeywordWords, number : YearCounts, plus : BOOLEAN, gap : BOOLEAN,
     unit : UnitWords, after : KeywordWords, trail : BOOLEAN]

SeniorityString(t) ==
    (IF t.before = "none" THEN <<>> ELSE Words[t.before] \o <<" ">>)
        \o Digits(t.number)
        \o (IF t.plus THEN <<"+">> ELSE <<>>)
        \o (IF t.gap THEN <<" ">> ELSE <<>>)
        \o Words[t.unit]
        \o (IF t.after = "none" THEN <<>> ELSE <<" ">> \o Words[t.after])
        \o (IF t.trail THEN <<" ", "e", "x", "p", "e", "r", "i", "e", "n", "c", "e">> ELSE <<>>)

InitSeniority ==
    /\ RankIdle /\ MatchIdle /\ OntologyIdle
    /\ BuilderIdle /\ DbIdle /\ BatchIdle
    /\ call \in [fn : {"normalize_seniority"},
                 arg : [text : SeniorityTexts, seniority_mappings : SeniorityMappings]]
    /\ ret = None

NormalizeSeniority ==
    /\ call # None /\ call.fn = "normalize_seniority"
    /\ ret = None
    /\ ret' = [value |-> normalize_seniority(SeniorityString(call.arg.text),
                                             call.arg.seniority_mappings)]
    /\ UNCHANGED <<call, rankVars, matchVars, ontVars,
                 builderVars, dbVars, batchVars>>

NextSeniority == NormalizeSeniority

SpecSeniority == InitSeniority /\ [][NextSeniority]_vars

\* the configured keyword a written word is, whatever its case
KeywordName(word) == IF word = "Senior" THEN "senior" ELSE word

\* C7: normalize_seniority always returns a level: 'mid' for an empty text;
\* for a text containing configured keywords the level of the one configured
\* first, whatever years the text states; otherwise N of an 'N years/anni'
\* pattern bucketed N < 2 junior, 2 <= N < 5 mid, N >= 5 senior; otherwise
\* 'mid'.
C7_NormalizeSeniority ==
    (ret # None /\ call.fn = "normalize_seniority") =>
        LET t == call.arg.text
            m == call.arg.seniority_mappings
            written == {KeywordName(t.before), KeywordName(t.after)}
            found == {k \in DOMAIN m : m[k].name \in written}
            pattern == t.number >= 0 /\ t.unit # "none"
        IN  /\ ret.value \in {"junior", "mid", "senior"}
            /\ SeniorityString(t) = <<>> => ret.value = "mid"
            /\ found # {} =>
                   /\ \E k \in found : ret.value = m[k].level
                   /\ \A k \in found : (\A z \in found : k <= z) => ret.value = m[k].level
            /\ (found = {} /\ pattern) =>
                   /\ t.number < 2 => ret.value = "junior"
                   /\ (2 <= t.number /\ t.number < 5) => ret.value = "mid"
                   /\ t.number >= 5 => ret.value = "senior"
            /\ (found = {} /\ ~pattern) => ret.value = "mid"

\* '5+ years senior experience' has been normalized to 'senior', the level
\* of its keyword, by an ontology that configures 'junior' before 'senior'
C7_Witness ==
    /\ ret # None /\ call.fn = "normalize_seniority"
    /\ call.arg.seniority_mappings[1].name = "junior"
    /\ call.arg.text = [before |-> "none", number |-> 5, plus |-> TRUE, gap |-> TRUE,
                        unit |-> "years", after |-> "senior", trail |-> TRUE]
    /\ ret.value = "senior"

(***************************************************************************)
(* The skill ontology (SkillOntology): the document is loaded, skills are  *)
(* normalized against it, and the unmapped skills observed are merged into *)
(* unmapped_skills.skills when it is saved.  Normalization runs follow one *)
(* another: a load makes a new object of what the last save wrote.         *)
(***************************************************************************)
capitalize(str) ==
    [i \in DOMAIN str |-> IF i = 1 THEN UpperChar(str[i]) ELSE LowerChar(str[i])]

\* skill_mappings of the document: "js" -> "JavaScript"
skill_mappings == {<<<<"j", "s">>, <<"J", "a", "v", "a", "S", "c", "r", "i", "p", "t">>>>}

Item(skill, freq) ==
    [skill |-> skill, frequency |-> freq, suggested_canonical |-> capitalize(skill)]

\* list.sort(key=frequency, reverse=True) placing equal frequencies in the
\* opposite of their previous order
RECURSIVE SortTiesReversed(_)
SortTiesReversed(items) ==
    IF items = <<>> THEN <<>>
    ELSE LET rest == SortTiesReversed(SubSeq(items, 1, Len(items) - 1))
             last == items[Len(items)]
             before == {k \in DOMAIN rest : rest[k].frequency > last.frequency}
             n == Cardinality(before)
         IN  SubSeq(rest, 1, n) \o <<last>> \o SubSeq(rest, n + 1, Len(rest))

\* list.sort(key=frequency, reverse=True) and sorted(..., reverse=True): by
\* frequency descending, equal frequencies in their previous order
RECURSIVE SortByFrequency(_)
SortByFrequency(items) ==
    IF items = <<>> THEN <<>>
    ELSE LET rest == SortByFrequency(SubSeq(items, 1, Len(items) - 1))
             last == items[Len(items)]
             before == {k \in DOMAIN rest : rest[k].frequency >= last.frequency}
             n == Cardinality(before)
         IN  SubSeq(rest, 1, n) \o <<last>> \o SubSeq(rest, n + 1, Len(rest))

\* every new item appended, listed or not
AppendAll(existing_unmapped, new_unmapped) == existing_unmapped \o new_unmapped

\* for item in new_unmapped: append it unless its skill is already listed
MergeUnmapped(existing_unmapped, new_unmapped) ==
    LET existing_skills ==
            {existing_unmapped[k].skill : k \in DOMAIN existing_unmapped}
        Loop[i \in 0..Len(new_unmapped)] ==
            IF i = 0 THEN existing_unmapped
            ELSE IF new_unmapped[i].skill \notin existing_skills
                 THEN Append(Loop[i - 1], new_unmapped[i])
                 ELSE Loop[i - 1]
    IN  Loop[Len(new_unmapped)]

\* the documents a first run may find: no unmapped skill yet, or a list an
\* earlier save wrote
OntologyFiles ==
    { <<>>,
      <<Item(<<"c", "o", "b", "o", "l">>, 2)>>,
      <<Item(<<"R", "u", "s", "t">>, 3), Item(<<"c", "o", "b", "o", "l">>, 1)>>,
      <<Item(<<"R", "u", "s", "t">>, 1), Item(<<"c", "o", "b", "o", "l">>, 1)>> }

\* the skills of the CVs and JDs being normalized
RawSkills == {<<"J", "S">>, <<"R", "u", "s", "t">>, <<" ", "g", "o">>, <<"G", "o">>}

Op(op, counted) == [op |-> op, counted |-> counted]

InitOntology ==
    /\ RankIdle /\ MatchIdle /\ CallIdle
    /\ BuilderIdle /\ DbIdle /\ BatchIdle
    /\ ontology_file \in OntologyFiles
    /\ ontology = None
    /\ log = <<>>

\* SkillOntology.__init__
Load ==
    /\ Len(log) < MaxOps
    /\ ontology' =
           [data |-> ontology_file,
            previous_unmapped |-> {ontology_file[k].skill : k \in DOMAIN ontology_file},
            unmapped_skills |-> <<>>]
    /\ log' = Append(log, Op("load", FALSE))
    /\ UNCHANGED <<ontology_file, rankVars, matchVars, callVars,
                 builderVars, dbVars, batchVars>>

\* SkillOntology.normalize_skill: unmapped_skills is a dict, kept here as
\* the list of its items in insertion order
NormalizeSkill ==
    /\ Len(log) < MaxOps
    /\ ontology # None
    /\ \E skill \in RawSkills :
        LET skill_clean == lstripChars(rstripChars(skill))
            skill_lower == lower(skill_clean)
            mapped == \E kv \in skill_mappings : kv[1] = skill_lower
            counted == ~mapped /\ skill_clean \notin ontology.previous_unmapped
            counter == ontology.unmapped_skills
            seen == {k \in DOMAIN counter : counter[k].skill = skill_clean}
        IN  /\ ontology' =
                   IF ~counted THEN ontology
                   ELSE [ontology EXCEPT !.unmapped_skills =
                            IF seen = {}
                            THEN Append(counter, Item(skill_clean, 1))
                            ELSE [k \in DOMAIN counter |->
                                    IF k \in seen
                                    THEN Item(skill_clean, counter[k].frequency + 1)
                                    ELSE counter[k]]]
            /\ log' = Append(log, Op("normalize_skill", counted))
    /\ UNCHANGED <<ontology_file, rankVars, matchVars, callVars,
                 builderVars, dbVars, batchVars>>

\* SkillOntology.save_updated_ontology
Save ==
    /\ Len(log) < MaxOps
    /\ ontology # None
    /\ LET new_unmapped == SortByFrequency(ontology.unmapped_skills)
           existing_unmapped ==
               SortByFrequency(MergeUnmapped(ontology.data, new_unmapped))
       IN  /\ ontology' = [ontology EXCEPT !.data = existing_unmapped]
           /\ ontology_file' = existing_unmapped
    /\ log' = Append(log, Op("save", FALSE))
    /\ UNCHANGED <<rankVars, matchVars, callVars,
                 builderVars, dbVars, batchVars>>

NextOntology == Load \/ NormalizeSkill \/ Save

SpecOntology == InitOntology /\ [][NextOntology]_vars

Skills(items) == {items[k].skill : k \in DOMAIN items}
SortedByFrequency(items) ==
    \A j, k \in DOMAIN items : j < k => items[j].frequency >= items[k].frequency
LastOp(l) == IF l = <<>> THEN "none" ELSE l[Len(l)].op

\* C8: whatever the normalizer does, an entry of unmapped_skills.skills keeps
\* its skill and its frequency and stays in the list exactly once, the list
\* never holds a skill twice, every entry that was not there before is a
\* skill the list did not hold, and a save leaves the list ordered by
\* frequency descending.
C8_UnmappedAppendOnly ==
    [][ LET old == ontology_file
            new == ontology_file'
        IN  /\ \A i \in DOMAIN old :
                   /\ Cardinality({j \in DOMAIN new : new[j].skill = old[i].skill}) = 1
                   /\ \E j \in DOMAIN new : new[j] = old[i]
            /\ \A j, k \in DOMAIN new : new[j].skill = new[k].skill => j = k
            /\ Len(new) = Len(old)
                   + Cardinality({j \in DOMAIN new : new[j].skill \notin Skills(old)})
            /\ LastOp(log') = "save" => SortedByFrequency(new)
      ]_vars

\* a second save of one object has run after ' go' was observed again: the
\* list holds the earlier entries and 'go' once, with the frequency it was
\* first saved with
C8_Witness ==
    /\ Len(log) = MaxOps /\ LastOp(log) = "save"
    /\ log[Len(log) - 1] = Op("normalize_skill", TRUE)
    /\ log[Len(log) - 2].op = "save"
    /\ ontology_file = <<Item(<<"R", "u", "s", "t">>, 3), Item(<<"c", "o", "b", "o", "l">>, 1), Item(<<"g", "o">>, 1)>>
    /\ \E k \in DOMAIN ontology.unmapped_skills :
           ontology.unmapped_skills[k] = Item(<<"g", "o">>, 2)

\* the operations since the last save are only loads and normalize_skill
\* calls that observed no new unmapped skill
NothingNewSinceSave(l) ==
    \E k \in DOMAIN l :
        /\ l[k].op = "save"
        /\ \A j \in (k + 1)..Len(l) :
               l[j].op = "load" \/ (l[j].op = "normalize_skill" /\ ~l[j].counted)

\* C9: a save that follows a save directly, or follows it after a reload with
\* no new unmapped skill observed, leaves unmapped_skills.skills as it was:
\* same entries, same order, same frequencies.
C9_SaveIdempotent ==
    [][ (LastOp(log') = "save" /\ NothingNewSinceSave(log))
            => ontology_file' = ontology_file ]_vars

\* a list holding a newly observed skill and another entry of the same
\* frequency has been saved and then saved again, directly or after a reload
C9_Witness ==
    /\ Len(log) >= 4 /\ LastOp(log) = "save"
    /\ NothingNewSinceSave(SubSeq(log, 1, Len(log) - 1))
    /\ \E j, k \in DOMAIN ontology_file :
           /\ j < k
           /\ ontology_file[j].frequency = ontology_file[k].frequency
           /\ ontology_file[k].skill \in {<<"g", "o">>, <<"G", "o">>}

(***************************************************************************)
(* The skills features of one pair, from the comma-separated columns of    *)
(* the normalized datasets, by the batch engine (compute_skills_features)  *)
(* and by the single-pair service (compute_features).  A column is the     *)
(* sequence of its comma-separated items.                                  *)
(***************************************************************************)
\* re.sub(r'^[\*e\s]+', '', clean)
RECURSIVE StripLeadingMarks(_)
StripLeadingMarks(str) ==
    IF str # <<>> /\ Head(str) \in {"*", "e", " "}
    THEN StripLeadingMarks(Tail(str)) ELSE str

parse_skills_string(skills_str) ==
    {StripLeadingMarks(lower(lstripChars(rstripChars(skills_str[k])))) :
        k \in DOMAIN skills_str} \ {<<>>}

RequirementItems == {<<"P", "y", "t", "h", "o", "n">>, <<" ", "s", "q", "l">>, <<"5", "+", " ", "y", "e", "a", "r", "s">>, <<"3", " ", "a", "n", "n", "i">>, <<"*", " ", "d", "o", "c", "k", "e", "r">>}

RequirementStrings == UNION {[1..n -> RequirementItems] : n \in 0..MaxTokens}

CvSkillStrings ==
    { <<>>, <<<<"P", "y", "t", "h", "o", "n">>>>, <<<<"p", "y", "t", "h", "o", "n">>, <<"S", "Q", "L">>>>, <<<<"5", "+", " ", "y", "e", "a", "r", "s">>, <<"s", "q", "l">>>>, <<<<"r", "u", "s", "t">>>> }

NiceToHaveStrings == { <<>>, <<<<"d", "o", "c", "k", "e", "r">>>> }

\* the rows of the pair: only the skills columns vary
SkillsCvRow(a) == CvRow(30, parse_skills_string(a.skills_normalized), {1}, FALSE, FALSE)
SkillsJdRow(a) ==
    [ min_experience_years_normalized |-> 30,
      constraints_seniority_normalized |-> "mid",
      requirements |-> parse_skills_string(a.requirements_normalized),
      nice_to_have |-> parse_skills_string(a.nice_to_have_normalized),
      title |-> {1} ]

InitSkills ==
    /\ RankIdle /\ MatchIdle /\ OntologyIdle
    /\ BuilderIdle /\ DbIdle /\ BatchIdle
    /\ call \in [fn : {"compute_skills_features", "compute_features"},
                 arg : [skills_normalized : CvSkillStrings,
                        requirements_normalized : RequirementStrings,
                        nice_to_have_normalized : NiceToHaveStrings]]
    /\ ret = None

ComputeSkillsFeatures ==
    /\ call # None /\ call.fn = "compute_skills_features"
    /\ ret = None
    /\ ret' = [value |-> compute_skills_features(SkillsCvRow(call.arg),
                                                 SkillsJdRow(call.arg))]
    /\ UNCHANGED <<call, rankVars, matchVars, ontVars,
                 builderVars, dbVars, batchVars>>

ComputeFeatures ==
    /\ call # None /\ call.fn = "compute_features"
    /\ ret = None
    /\ ret' = [value |-> single_compute_features(SkillsCvRow(call.arg),
                                                 SkillsJdRow(call.arg), R(1, 2))]
    /\ UNCHANGED <<call, rankVars, matchVars, ontVars,
                 builderVars, dbVars, batchVars>>

NextSkills == ComputeSkillsFeatures \/ ComputeFeatures

SpecSkills == InitSkills /\ [][NextSkills]_vars

SkillsDone ==
    /\ ret # None
    /\ call.fn \in {"compute_skills_features", "compute_features"}

\* the written items that are an 'N years' / 'N anni' annotation
YearsItems == {<<"5", "+", " ", "y", "e", "a", "r", "s">>, <<"3", " ", "a", "n", "n", "i">>}
\* the parsed tokens of a column whose written item is no annotation
SkillTokens(column) ==
    parse_skills_string(SelectSeq(column, LAMBDA item : item \notin YearsItems))

\* C11: in both engines a JD requirement item that is an 'N years' / 'N anni'
\* annotation counts neither in the size of the requirement set nor in
\* skill_overlap_core_norm nor in must_have_missing: both are computed from
\* the other requirements alone.
C11_YearsAnnotationNeverCounts ==
    SkillsDone =>
        LET cv_skills == parse_skills_string(call.arg.skills_normalized)
            skills == SkillTokens(call.arg.requirements_normalized)
            matched == Cardinality(cv_skills \cap skills)
        IN  /\ ret.value.skill_overlap_core_norm =
                   (IF skills = {} THEN RZero ELSE R(matched, Cardinality(skills)))
            /\ ret.value.must_have_missing = RInt(Cardinality(skills) - matched)

\* the same for the single-pair service alone, which filters the annotations
C11_SinglePairFilters ==
    (SkillsDone /\ call.fn = "compute_features") => C11_YearsAnnotationNeverCounts

\* the batch engine has counted '5+ years' as a missing must-have of a CV
\* that has the only skill required
C11_BatchCountsAnnotation ==
    /\ SkillsDone /\ call.fn = "compute_skills_features"
    /\ call.arg.skills_normalized = <<<<"P", "y", "t", "h", "o", "n">>>>
    /\ call.arg.requirements_normalized = <<<<"P", "y", "t", "h", "o", "n">>, <<"5", "+", " ", "y", "e", "a", "r", "s">>>>
    /\ ret.value.skill_overlap_core_norm = R(1, 2)
    /\ ret.value.must_have_missing = RInt(1)

\* the requirement set an engine compares the CV skills with
ComparedRequirements ==
    IF call.fn = "compute_features"
    THEN SkillTokens(call.arg.requirements_normalized)
    ELSE parse_skills_string(call.arg.requirements_normalized)

\* C12 as stated: skill_overlap_core_norm is 0 exactly when the JD
\* requirement set is empty.
C12_ZeroExactlyWhenNoRequirements ==
    SkillsDone =>
        (ret.value.skill_overlap_core_norm = RZero <=> ComparedRequirements = {})

\* C12 amended: skill_overlap_core_norm is 0 whenever the JD requirement set
\* is empty, whatever the CV skills, and |CV skills /\ requirements| /
\* |requirements| otherwise, so it is 0 exactly when no CV skill is required.
C12_ZeroWhenNoRequirements ==
    SkillsDone =>
        LET cv_skills == parse_skills_string(call.arg.skills_normalized)
            matched == Cardinality(cv_skills \cap ComparedRequirements)
        IN  /\ ComparedRequirements = {} => ret.value.skill_overlap_core_norm = RZero
            /\ ComparedRequirements # {} =>
                   ret.value.skill_overlap_core_norm =
                       R(matched, Cardinality(ComparedRequirements))
            /\ ret.value.skill_overlap_core_norm = RZero <=> matched = 0

\* a CV with two skills has been compared with a JD without requirements
C12_Witness ==
    /\ SkillsDone
    /\ ComparedRequirements = {}
    /\ Cardinality(parse_skills_string(call.arg.skills_normalized)) = 2
    /\ ret.value.skill_overlap_core_norm = RZero

(***************************************************************************)
(* single_match.py: cosine_similarity of two embedding vectors.  The       *)
(* quotient dot / (norm1 * norm2) is kept exactly, as its sign and its     *)
(* square dot^2 / (norm1^2 * norm2^2).                                     *)
(***************************************************************************)
EmbeddingComponents == {-1, 0, 1, 2}
EmbeddingVectors == [1..EmbeddingDim -> EmbeddingComponents]

RECURSIVE Dot(_, _)
Dot(vec1, vec2) ==
    IF vec1 = <<>> THEN 0
    ELSE Head(vec1) * Head(vec2) + Dot(Tail(vec1), Tail(vec2))

Sign(x) == IF x > 0 THEN 1 ELSE IF x < 0 THEN -1 ELSE 0

cosine_similarity(vec1, vec2) ==
    LET norm1sq == Dot(vec1, vec1)
        norm2sq == Dot(vec2, vec2)
        dot == Dot(vec1, vec2)
    IN  IF norm1sq = 0 \/ norm2sq = 0 THEN [sign |-> 0, square |-> RZero]
        ELSE [sign |-> Sign(dot), square |-> R(dot * dot, norm1sq * norm2sq)]

InitCosine ==
    /\ RankIdle /\ MatchIdle /\ OntologyIdle
    /\ BuilderIdle /\ DbIdle /\ BatchIdle
    /\ call \in [fn : {"cosine_similarity"},
                 arg : [vec1 : EmbeddingVectors, vec2 : EmbeddingVectors]]
    /\ ret = None

CosineSimilarity ==
    /\ call # None /\ call.fn = "cosine_similarity"
    /\ ret = None
    /\ ret' = [value |-> cosine_similarity(call.arg.vec1, call.arg.vec2)]
    /\ UNCHANGED <<call, rankVars, matchVars, ontVars,
                 builderVars, dbVars, batchVars>>

NextCosine == CosineSimilarity

SpecCosine == InitCosine /\ [][NextCosine]_vars

CosineDone == ret # None /\ call.fn = "cosine_similarity"
IsZeroVector(vec) == \A k \in DOMAIN vec : vec[k] = 0

\* C13: the cosine similarity of the single-pair service is within [0,1]
\* for every pair of embedding vectors, and exactly 0 when either vector is
\* the zero vector.
C13_CosineInUnitInterval ==
    CosineDone =>
        /\ ret.value.sign >= 0
        /\ RLe(ret.value.square, ROne)
        /\ (IsZeroVector(call.arg.vec1) \/ IsZeroVector(call.arg.vec2)) =>
               ret.value.sign = 0

\* what does hold: the cosine is within [-1,1], and 0 for a zero vector
C13_CosineInSignedUnitInterval ==
    CosineDone =>
        /\ RLe(ret.value.square, ROne)
        /\ (IsZeroVector(call.arg.vec1) \/ IsZeroVector(call.arg.vec2)) =>
               ret.value.sign = 0

\* two opposite vectors have been given the cosine -1
C13_NegativeCosine ==
    /\ CosineDone
    /\ call.arg.vec1 = <<1, 0>> /\ call.arg.vec2 = <<-1, 0>>
    /\ ret.value.sign = -1 /\ ret.value.square = ROne

(***************************************************************************)
(* Explanations (xai.py and the copy in single_match.py): the reasons and  *)
(* the risks of one candidate, from its feature values, its feature        *)
(* contributions and its details.  Years are in tenths.                    *)
(***************************************************************************)
COSINE_STRONG == R(65, 100)
COSINE_MODERATE == R(45, 100)
SKILL_CORE_STRONG == R(6, 10)
SKILL_CORE_PARTIAL == R(2, 10)
SKILL_NICE_THRESHOLD == R(25, 100)

\* list.sort(key=...): items[1..n] in the order of KeyLe, items of equal key
\* in their previous order
StableSort(items, KeyLe(_, _)) ==
    LET Before(j, i) ==
            \/ KeyLe(items[j], items[i]) /\ ~KeyLe(items[i], items[j])
            \/ KeyLe(items[j], items[i]) /\ KeyLe(items[i], items[j]) /\ j < i
        place == [i \in DOMAIN items |->
                     Cardinality({j \in DOMAIN items : Before(j, i)}) + 1]
    IN  [p \in DOMAIN items |-> items[CHOOSE i \in DOMAIN items : place[i] = p]]

\* the whole list, whatever its length
WholeList(items, n) == items

\* items[:n]
FirstItems(items, n) == SubSeq(items, 1, IF Len(items) < n THEN Len(items) ELSE n)

Reason(reason_id, category, contribution) ==
    [reason_id |-> reason_id, category |-> category,
     contribution |-> Round4(contribution)]

\* the experience, seniority and skills details the rules read: the
\* *_details when given, else the fallbacks taken from details
ExperienceOf(a) ==
    IF a.experience_details # None
    THEN [years_cv |-> a.experience_details.cv_years,
          years_jd |-> a.experience_details.required_years]
    ELSE [years_cv |-> a.details.years_experience_cv,
          years_jd |-> a.details.years_required_jd]

SeniorityOf(a) ==
    IF a.seniority_details # None
    THEN [seniority_cv |-> a.seniority_details.cv_seniority,
          seniority_jd |-> a.seniority_details.required_seniority,
          seniority_gap |-> a.seniority_details.gap]
    ELSE [seniority_cv |-> a.details.seniority_cv,
          seniority_jd |-> a.details.seniority_jd,
          seniority_gap |-> 0]

build_top_reasons(a) ==
    LET v == a.feature_values
        c == a.feature_contributions
        nice_matched == IF a.skills_details # None
                        THEN a.skills_details.nice_to_have_matched ELSE 0
        e == ExperienceOf(a)
        sen == SeniorityOf(a)
        semantic ==
            IF RLe(COSINE_STRONG, v.cosine_similarity_normalized)
            THEN <<Reason("semantic_match_strong", "profile_fit",
                          c.cosine_similarity_normalized)>>
            ELSE IF RLe(COSINE_MODERATE, v.cosine_similarity_normalized)
            THEN <<Reason("semantic_match_moderate", "profile_fit",
                          c.cosine_similarity_normalized)>>
            ELSE <<>>
        core ==
            IF RLe(SKILL_CORE_STRONG, v.skill_overlap_core_norm)
            THEN <<Reason("core_skills_strong", "skills", c.skill_overlap_core_norm)>>
            ELSE IF RLe(SKILL_CORE_PARTIAL, v.skill_overlap_core_norm)
            THEN <<Reason("core_skills_partial", "skills", c.skill_overlap_core_norm)>>
            ELSE <<>>
        nice ==
            IF RLe(SKILL_NICE_THRESHOLD, v.skill_overlap_nice_norm) /\ nice_matched > 0
            THEN <<Reason("nice_skills_present", "skills", c.skill_overlap_nice_norm)>>
            ELSE <<>>
        experience ==
            IF v.experience_meets_requirement = ROne
            THEN IF e.years_jd > 0 /\ e.years_cv * 10 >= e.years_jd * 15
                 THEN <<Reason("experience_exceeds", "experience",
                               c.experience_meets_requirement)>>
                 ELSE <<Reason("experience_sufficient", "experience",
                               c.experience_meets_requirement)>>
            ELSE <<>>
        seniority ==
            IF v.seniority_match = ROne /\ sen.seniority_cv # "" /\ sen.seniority_jd # ""
            THEN <<Reason("seniority_aligned", "seniority", c.seniority_match)>>
            ELSE IF sen.seniority_gap > 0 /\ sen.seniority_cv # ""
                    /\ sen.seniority_jd # ""
            THEN <<Reason("seniority_higher", "seniority", c.seniority_match)>>
            ELSE <<>>
        role ==
            IF v.role_coherent = ROne /\ a.details.cv_current_role # ""
            THEN <<Reason("role_aligned", "role", c.role_coherent)>>
            ELSE <<>>
        reasons == semantic \o core \o nice \o experience \o seniority \o role
        ByContributionDescending(x, y) == RLe(y.contribution, x.contribution)
    IN  FirstItems(StableSort(reasons, ByContributionDescending), 5)

\* what a candidate shows on each topic
SemanticCases == {R(30, 100), R(50, 100), R(70, 100)}
CoreSkillCases == {R(1, 10), R(4, 10), R(8, 10)}
NiceMatchedCases == {0, 1}
ExperienceCases ==
    { [meets |-> RZero, cv_years |-> 10, required_years |-> 30],
      [meets |-> ROne, cv_years |-> 30, required_years |-> 30],
      [meets |-> ROne, cv_years |-> 60, required_years |-> 30] }
SeniorityCases ==
    { [match |-> ROne, cv_seniority |-> "mid", required_seniority |-> "mid", gap |-> 0],
      [match |-> RZero, cv_seniority |-> "senior", required_seniority |-> "mid",
       gap |-> 1],
      [match |-> RZero, cv_seniority |-> "junior", required_seniority |-> "senior",
       gap |-> -2] }
RoleCases == {"", "developer"}

\* contributions: two of them differ only beyond the fourth decimal
FineContributions == {R(5, 100), R(12341, 100000), R(12344, 100000)}
CoarseContributions == {R(5, 100), R(2, 10)}

\* who calls: the single-pair service, the batch builder with the details of
\* the reranker, the batch builder with a details dictionary only
XaiCallers == {"single_match", "xai", "xai_details_only"}

ReasonCases ==
    [caller : XaiCallers, semantic : SemanticCases, core : CoreSkillCases,
     nice_matched : NiceMatchedCases, experience : ExperienceCases,
     seniority : SeniorityCases, cv_current_role : RoleCases,
     c_semantic : FineContributions, c_core : FineContributions,
     c_nice : CoarseContributions, c_experience : CoarseContributions,
     c_seniority : CoarseContributions, c_role : CoarseContributions]

\* the arguments of build_top_reasons for a case
ReasonArgs(t) ==
    LET given == t.caller # "xai_details_only"
    IN  [ feature_values |->
              [cosine_similarity_normalized |-> t.semantic,
               skill_overlap_core_norm |-> t.core,
               skill_overlap_nice_norm |-> R(1, 2),
               experience_meets_requirement |-> t.experience.meets,
               seniority_match |-> t.seniority.match,
               role_coherent |-> ROne],
          feature_contributions |->
              [cosine_similarity_normalized |-> t.c_semantic,
               skill_overlap_core_norm |-> t.c_core,
               skill_overlap_nice_norm |-> t.c_nice,
               experience_meets_requirement |-> t.c_experience,
               seniority_match |-> t.c_seniority,
               role_coherent |-> t.c_role],
          details |->
              [cv_current_role |-> t.cv_current_role,
               years_experience_cv |-> t.experience.cv_years,
               years_required_jd |-> t.experience.required_years,
               seniority_cv |-> t.seniority.cv_seniority,
               seniority_jd |-> t.seniority.required_seniority],
          experience_details |->
              IF given THEN [cv_years |-> t.experience.cv_years,
                             required_years |-> t.experience.required_years]
              ELSE None,
          seniority_details |->
              IF given THEN [cv_seniority |-> t.seniority.cv_seniority,
                             required_seniority |-> t.seniority.required_seniority,
                             gap |-> t.seniority.gap]
              ELSE None,
          skills_details |->
              IF given THEN [nice_to_have_matched |-> t.nice_matched] ELSE None ]

InitReasons ==
    /\ RankIdle /\ MatchIdle /\ OntologyIdle
    /\ BuilderIdle /\ DbIdle /\ BatchIdle
    /\ call \in [fn : {"build_top_reasons"}, arg : ReasonCases]
    /\ ret = None

BuildTopReasons ==
    /\ call # None /\ call.fn = "build_top_reasons"
    /\ ret = None
    /\ ret' = [value |-> build_top_reasons(ReasonArgs(call.arg))]
    /\ UNCHANGED <<call, rankVars, matchVars, ontVars,
                 builderVars, dbVars, batchVars>>

NextReasons == BuildTopReasons

SpecReasons == InitReasons /\ [][NextReasons]_vars

ReasonsDone == ret # None /\ call.fn = "build_top_reasons"

\* the topic of a reason
ReasonTopic(reason_id) ==
    CASE reason_id \in {"semantic_match_strong", "semantic_match_moderate"} -> "semantic"
      [] reason_id \in {"core_skills_strong", "core_skills_partial"} -> "core_skills"
      [] reason_id \in {"experience_exceeds", "experience_sufficient"} -> "experience"
      [] reason_id \in {"seniority_aligned", "seniority_higher"} -> "seniority"
      [] OTHER -> reason_id

\* the case makes a rule of each of the six topics fire
SixRulesFire(t) ==
    /\ RLe(COSINE_MODERATE, t.semantic)
    /\ RLe(SKILL_CORE_PARTIAL, t.core)
    /\ t.nice_matched > 0 /\ t.caller # "xai_details_only"
    /\ t.experience.meets = ROne
    /\ t.seniority.match = ROne \/ (t.seniority.gap > 0 /\ t.caller # "xai_details_only")
    /\ t.cv_current_role # ""

\* the six contributions of a case as the reasons carry them
SixContributions(t) ==
    << Round4(t.c_semantic), Round4(t.c_core), Round4(t.c_nice),
       Round4(t.c_experience), Round4(t.c_seniority), Round4(t.c_role) >>

\* C14: build_top_reasons returns at most 5 reasons, ordered by contribution
\* descending, at most one of them per topic; when six rules fire, five are
\* returned and the one left out has the lowest contribution of the six.
C14_TopReasons ==
    ReasonsDone =>
        LET out == ret.value
            six == SixContributions(call.arg)
        IN  /\ Len(out) <= 5
            /\ \A i, j \in DOMAIN out :
                   i < j => RLe(out[j].contribution, out[i].contribution)
            /\ \A i, j \in DOMAIN out :
                   ReasonTopic(out[i].reason_id) = ReasonTopic(out[j].reason_id) => i = j
            /\ SixRulesFire(call.arg) =>
                   /\ Len(out) = 5
                   /\ RSum([k \in 1..5 |-> out[k].contribution], 1..5) =
                          RSub(RSum(six, 1..6), RMinOf({six[k] : k \in 1..6}))

\* six rules fired and the semantic reason, the first one built, was the one
\* left out
C14_Witness ==
    /\ ReasonsDone
    /\ SixRulesFire(call.arg)
    /\ Len(ret.value) = 5
    /\ \A k \in DOMAIN ret.value : ReasonTopic(ret.value[k].reason_id) # "semantic"

MISSING_SKILLS_HIGH == 2
\* 1.5 years, in tenths
EXPERIENCE_GAP_HIGH == 15

Risk(risk_id, category, severity, contribution) ==
    [risk_id |-> risk_id, category |-> category, severity |-> severity,
     contribution |-> Round4(contribution)]

severity_order(severity) ==
    IF severity = "high" THEN 0 ELSE IF severity = "medium" THEN 1 ELSE 2

\* the order of the contributions alone
ByContributionOnly(x, y) == RLe(x.contribution, y.contribution)

\* key=lambda x: (severity_order.get(x['severity'], 2), x['contribution'])
BySeverityThenContribution(x, y) ==
    \/ severity_order(x.severity) < severity_order(y.severity)
    \/ /\ severity_order(x.severity) = severity_order(y.severity)
       /\ RLe(x.contribution, y.contribution)

\* no risk counts as the critical one
NeverCritical(risks) == FALSE

\* any(r['risk_id'] == 'seniority_gap_critical' for r in risks)
has_seniority_critical(risks) ==
    \E k \in DOMAIN risks : risks[k].risk_id = "seniority_gap_critical"

\* the risks list of build_main_risks before it is sorted and cut
main_risks_found(a) ==
    LET v == a.feature_values
        c == a.feature_contributions
        e == ExperienceOf(a)
        missing_count == IF a.skills_details # None
                         THEN a.skills_details.must_have_missing
                         ELSE v.must_have_missing
        skills ==
            IF v.must_have_missing > 0
            THEN <<Risk("missing_core_skills", "skills",
                        IF missing_count >= MISSING_SKILLS_HIGH THEN "high" ELSE "medium",
                        c.must_have_missing)>>
            ELSE <<>>
        critical ==
            IF v.seniority_mismatch_strong = ROne
            THEN <<Risk("seniority_gap_critical", "seniority", "high",
                        c.seniority_mismatch_strong)>>
            ELSE <<>>
        underskilled ==
            IF v.seniority_underskilled = ROne /\ ~has_seniority_critical(skills \o critical)
            THEN <<Risk("underskilled", "seniority", "medium",
                        c.seniority_underskilled)>>
            ELSE <<>>
        experience ==
            IF v.experience_meets_requirement = RZero /\ e.years_jd > 0
            THEN <<Risk("experience_below_requirement", "experience",
                        IF e.years_jd - e.years_cv >= EXPERIENCE_GAP_HIGH
                        THEN "high" ELSE "medium",
                        c.experience_penalty_soft)>>
            ELSE <<>>
    IN  skills \o critical \o underskilled \o experience

build_main_risks(a) ==
    FirstItems(StableSort(main_risks_found(a), BySeverityThenContribution), 3)

MissingCases == {0, 1, 2}
SeniorityRiskCases ==
    { [mismatch |-> RZero, underskilled |-> RZero],
      [mismatch |-> RZero, underskilled |-> ROne],
      [mismatch |-> ROne, underskilled |-> ROne],
      [mismatch |-> ROne, underskilled |-> RZero] }
ExperienceRiskCases ==
    { [meets |-> ROne, cv_years |-> 30, required_years |-> 30],
      [meets |-> RZero, cv_years |-> 20, required_years |-> 30],
      [meets |-> RZero, cv_years |-> 10, required_years |-> 30] }
RiskContributions == {RZero, R(-3, 100), R(-12341, 100000), R(-12344, 100000)}

RiskCases ==
    [caller : XaiCallers, missing : MissingCases, seniority : SeniorityRiskCases,
     experience : ExperienceRiskCases,
     c_missing : RiskContributions, c_mismatch : RiskContributions,
     c_underskilled : RiskContributions, c_experience : RiskContributions]

\* the arguments of build_main_risks for a case
RiskArgs(t) ==
    LET given == t.caller # "xai_details_only"
    IN  [ feature_values |->
              [must_have_missing |-> t.missing,
               seniority_mismatch_strong |-> t.seniority.mismatch,
               seniority_underskilled |-> t.seniority.underskilled,
               experience_meets_requirement |-> t.experience.meets],
          feature_contributions |->
              [must_have_missing |-> t.c_missing,
               seniority_mismatch_strong |-> t.c_mismatch,
               seniority_underskilled |-> t.c_underskilled,
               experience_penalty_soft |-> t.c_experience],
          details |->
              [years_experience_cv |-> t.experience.cv_years,
               years_required_jd |-> t.experience.required_years],
          experience_details |->
              IF given THEN [cv_years |-> t.experience.cv_years,
                             required_years |-> t.experience.required_years]
              ELSE None,
          skills_details |->
              IF given THEN [must_have_missing |-> t.missing] ELSE None ]

InitRisks ==
    /\ RankIdle /\ MatchIdle /\ OntologyIdle
    /\ BuilderIdle /\ DbIdle /\ BatchIdle
    /\ call \in [fn : {"build_main_risks"}, arg : RiskCases]
    /\ ret = None

BuildMainRisks ==
    /\ call # None /\ call.fn = "build_main_risks"
    /\ ret = None
    /\ ret' = [value |-> build_main_risks(RiskArgs(call.arg))]
    /\ UNCHANGED <<call, rankVars, matchVars, ontVars,
                 builderVars, dbVars, batchVars>>

NextRisks == BuildMainRisks

SpecRisks == InitRisks /\ [][NextRisks]_vars

RisksDone == ret # None /\ call.fn = "build_main_risks"

\* C15: build_main_risks returns at most 3 risks; every 'high' risk precedes
\* every 'medium' one and, within one severity, a risk with a more negative
\* contribution precedes one with a less negative contribution.
C15_MainRisks ==
    RisksDone =>
        LET out == ret.value
        IN  /\ Len(out) <= 3
            /\ \A i, j \in DOMAIN out :
                   (out[i].severity = "high" /\ out[j].severity = "medium") => i < j
            /\ \A i, j \in DOMAIN out :
                   (/\ out[i].severity = out[j].severity
                    /\ RLt(out[i].contribution, out[j].contribution)) => i < j

\* three risks were returned, a 'high' one built last moved before a 'medium'
\* one, and two 'high' ones swapped by their contributions
C15_Witness ==
    /\ RisksDone
    /\ Len(ret.value) = 3
    /\ ret.value[1].risk_id = "experience_below_requirement"
    /\ ret.value[2].risk_id = "seniority_gap_critical"
    /\ ret.value[3].risk_id = "missing_core_skills"
    /\ ret.value[3].severity = "medium"
    /\ RLt(ret.value[1].contribution, ret.value[2].contribution)
    /\ RLt(ret.value[3].contribution, ret.value[1].contribution)

(***************************************************************************)
(* The quality label of a final score: the batch builder (xai.py,          *)
(* build_xai_company), the single-pair builder (single_match.py,           *)
(* build_xai) and get_quality_label of the single-pair service             *)
(***************************************************************************)
QUALITY_THRESHOLDS == [excellent |-> R(5, 10), good |-> R(3, 10), weak |-> RZero]

get_quality_label(score) ==
    IF RLe(QUALITY_THRESHOLDS.excellent, score) THEN "EXCELLENT"
    ELSE IF RLe(QUALITY_THRESHOLDS.good, score) THEN "GOOD"
    ELSE "WEAK"

\* build_xai of single_match.py
build_xai_quality_label(final_score) ==
    IF RLe(R(5, 10), final_score) THEN "EXCELLENT"
    ELSE IF RLe(R(3, 10), final_score) THEN "GOOD"
    ELSE "WEAK"

\* build_xai_company of xai.py
build_xai_company_quality_label(final_score) ==
    IF RLe(R(45, 100), final_score) THEN "EXCELLENT"
    ELSE IF RLe(R(20, 100), final_score) THEN "GOOD"
    ELSE "WEAK"

\* final scores, in hundredths
FinalScores == {R(k, 100) : k \in 0..100}

InitQuality ==
    /\ RankIdle /\ MatchIdle /\ OntologyIdle
    /\ BuilderIdle /\ DbIdle /\ BatchIdle
    /\ call \in [fn : {"get_quality_label", "build_xai", "build_xai_company"},
                 arg : FinalScores]
    /\ ret = None

GetQualityLabel ==
    /\ call # None /\ call.fn = "get_quality_label"
    /\ ret = None
    /\ ret' = [value |-> get_quality_label(call.arg)]
    /\ UNCHANGED <<call, rankVars, matchVars, ontVars,
                 builderVars, dbVars, batchVars>>

BuildXai ==
    /\ call # None /\ call.fn = "build_xai"
    /\ ret = None
    /\ ret' = [value |-> build_xai_quality_label(call.arg)]
    /\ UNCHANGED <<call, rankVars, matchVars, ontVars,
                 builderVars, dbVars, batchVars>>

BuildXaiCompany ==
    /\ call # None /\ call.fn = "build_xai_company"
    /\ ret = None
    /\ ret' = [value |-> build_xai_company_quality_label(call.arg)]
    /\ UNCHANGED <<call, rankVars, matchVars, ontVars,
                 builderVars, dbVars, batchVars>>

NextQuality == GetQualityLabel \/ BuildXai \/ BuildXaiCompany

SpecQuality == InitQuality /\ [][NextQuality]_vars

QualityDone ==
    ret # None /\ call.fn \in {"get_quality_label", "build_xai", "build_xai_company"}

\* C16: the quality label of a candidate is EXCELLENT exactly when
\* final_score >= 0.5, GOOD exactly when 0.3 <= final_score < 0.5 and WEAK
\* otherwise, in the batch builder and in the single-pair service.
C16_QualityLabel ==
    QualityDone =>
        /\ ret.value = "EXCELLENT" <=> RLe(R(5, 10), call.arg)
        /\ ret.value = "GOOD" <=> (RLe(R(3, 10), call.arg) /\ RLt(call.arg, R(5, 10)))
        /\ ret.value = "WEAK" <=> RLt(call.arg, R(3, 10))

\* the same for the single-pair service alone
C16_SinglePairQualityLabel ==
    (QualityDone /\ call.fn # "build_xai_company") => C16_QualityLabel

\* the batch builder has labelled a final score of 0.46 EXCELLENT
C16_BatchLabelsEarlier ==
    /\ QualityDone /\ call.fn = "build_xai_company"
    /\ call.arg = R(46, 100)
    /\ ret.value = "EXCELLENT"

(***************************************************************************)
(* The candidate entry of rerank_output.json (reranking.py,                *)
(* build_candidate_entry) and what build_xai_company (xai.py) reads of it  *)
(***************************************************************************)
\* bool(x) of a column that holds a whole number, and of one that holds a ratio
Truthy(x) == x # 0
TruthyR(x) == x # RZero

\* the entry of one scored row.  Years are in tenths, which round(x, 1)
\* leaves as they are; contrib_<feature> is weight x value.
build_candidate_entry(row) ==
    LET Present == {f \in DOMAIN WEIGHTS : f \in DOMAIN row}
    IN  [ user_id |-> row.user_id,
          rank |-> row.final_rank,
          score |-> Round4(row.final_score),
          score_breakdown |->
              [ linear_score_raw |-> Round4(row.linear_score_raw),
                linear_score_normalized |-> Round4(row.linear_score),
                dei_boost |-> Round4(row.dei_boost),
                final_score |-> Round4(row.final_score) ],
          experience_details |->
              [ cv_years |-> row.years_experience_cv,
                required_years |-> row.years_required_jd,
                gap |-> row.experience_gap,
                meets_requirement |-> TruthyR(row.experience_meets_requirement) ],
          feature_values |-> [f \in Present |-> Round4(row[f])],
          feature_contributions |->
              [f \in Present |-> Round4(RMul(R(WEIGHTS[f], 100), row[f]))],
          flags |->
              [ seniority_mismatch_strong |-> TruthyR(row.seniority_mismatch_strong),
                underskilled |-> TruthyR(row.seniority_underskilled),
                experience_below_requirement |->
                    ~TruthyR(row.experience_meets_requirement),
                experience_significantly_under |->
                    TruthyR(row.experience_significantly_under),
                experience_overqualified |-> Truthy(row.experience_overqualified),
                has_dei_tag |-> row.dei_tag_count > 0 ],
          dei_tags |->
              [ women |-> Truthy(row.tag_women),
                protected_category |-> Truthy(row.tag_protected_category) ] ]

\* dict.get(key, default)
Get(d, key, default) == IF key \in DOMAIN d THEN d[key] ELSE default

\* build_xai_company: the three details it hands to the reason, risk and
\* evidence builders
build_xai_company_details(candidate_data) ==
    [ experience_details |-> Get(candidate_data, "experience_details", None),
      seniority_details |-> Get(candidate_data, "seniority_details", None),
      skills_details |-> Get(candidate_data, "skills_details", None) ]

\* the rows of the scored frame of every run of the pipeline
ScoredRows ==
    UNION { LET df == compute_linear_score(
                          build_dei_adjusted_features(
                              build_all_features(WithRank(s))))
            IN  {df[i] : i \in DOMAIN df} : s \in PairLists }

InitEntry ==
    /\ RankIdle /\ MatchIdle /\ OntologyIdle
    /\ BuilderIdle /\ DbIdle /\ BatchIdle
    /\ call \in {[fn |-> "build_candidate_entry", arg |-> row] : row \in ScoredRows}
    /\ ret = None

BuildCandidateEntry ==
    /\ call.fn = "build_candidate_entry"
    /\ ret = None
    /\ ret' = [value |-> build_candidate_entry(call.arg)]
    /\ UNCHANGED <<call, rankVars, matchVars, ontVars,
                 builderVars, dbVars, batchVars>>

\* the XAI pipeline loads the entry that was written
BuildXaiCompanyDetails ==
    /\ call.fn = "build_candidate_entry"
    /\ ret # None
    /\ call' = [fn |-> "build_xai_company", arg |-> ret.value]
    /\ ret' = [value |-> build_xai_company_details(ret.value)]
    /\ UNCHANGED <<rankVars, matchVars, ontVars,
                 builderVars, dbVars, batchVars>>

NextEntry == BuildCandidateEntry \/ BuildXaiCompanyDetails

SpecEntry == InitEntry /\ [][NextEntry]_vars

\* the keys a candidate entry is said to carry
CandidateKeys ==
    { "user_id", "rank", "score", "score_breakdown", "feature_values",
      "feature_contributions", "flags", "dei_tags", "experience_details",
      "seniority_details", "skills_details" }

EntryWritten == call.fn = "build_candidate_entry" /\ ret # None
EntryRead == call.fn = "build_xai_company" /\ ret # None

\* C17: every candidate entry the batch reranker writes carries all of the
\* keys user_id, rank, score, score_breakdown, feature_values,
\* feature_contributions, flags, dei_tags, experience_details,
\* seniority_details and skills_details, so build_xai_company, reading the
\* entry, receives seniority details and skills details.
C17_EntryCarriesAllKeys ==
    /\ EntryWritten => CandidateKeys \subseteq DOMAIN ret.value
    /\ EntryRead =>
          /\ ret.value.seniority_details # None
          /\ ret.value.skills_details # None

\* what does hold: the entry carries the nine other keys, and the
\* experience details are the only details the XAI builder receives
C17_EntryCarriesNineKeys ==
    /\ EntryWritten =>
          DOMAIN ret.value = CandidateKeys \ {"seniority_details", "skills_details"}
    /\ EntryRead =>
          /\ ret.value.experience_details = call.arg.experience_details
          /\ ret.value.seniority_details = None
          /\ ret.value.skills_details = None

\* the XAI builder has read an entry and found no seniority details
C17_DetailsMissing ==
    EntryRead /\ ret.value.seniority_details = None

(***************************************************************************)
(* The DEI tags of one CV row, in the batch stage (reranking.py,           *)
(* add_dei_tags and compute_dei_score) and in the single-pair service      *)
(* (single_match.py, compute_features)                                     *)
(***************************************************************************)
tag_cols == {"tag_women", "tag_protected_category"}

\* what a tag cell of the CV table can hold; "absent": the table has no such
\* column
TagCells == {"True", "False", "NaN", "absent"}

\* pd.notna(x)
notna(cell) == cell # "NaN"

\* add_dei_tags and compute_dei_score, for the row of one candidate
batch_dei(cv_row, cosine_similarity_normalized) ==
    LET existing_tag_cols == {col \in tag_cols : cv_row[col] # "absent"}
        tags == [col \in existing_tag_cols |-> Bit(notna(cv_row[col]))]
        dei_tag_count ==
            IF existing_tag_cols = {} THEN 0
            ELSE RSum([col \in existing_tag_cols |-> RInt(tags[col])],
                      existing_tag_cols)[1]
        dei_boost == RMul(RInt(dei_tag_count), TAG_BOOST)
    IN  [ tags |-> tags,
          dei_tag_count |-> dei_tag_count,
          dei_boost |-> dei_boost,
          score_with_dei |->
              RClip(RAdd(cosine_similarity_normalized, dei_boost), RZero, ROne) ]

\* the DEI lines of compute_features: cv_row.get(col, False), then
\* 1 if pd.notna(tag) and tag else 0
single_dei(cv_row, cosine_sim) ==
    LET Cell(col) == IF cv_row[col] = "absent" THEN "False" ELSE cv_row[col]
        tags == [col \in tag_cols |-> Bit(notna(Cell(col)) /\ Cell(col) = "True")]
        dei_tag_count == tags["tag_women"] + tags["tag_protected_category"]
    IN  [ tags |-> tags,
          dei_tag_count |-> dei_tag_count,
          dei_boost |-> RMul(RInt(dei_tag_count), DEI_TAG_BOOST) ]

\* cosine similarities of the pair, in tenths
DeiCosines == {R(k, 10) : k \in {0, 5, 9, 10}}

InitDei ==
    /\ RankIdle /\ MatchIdle /\ OntologyIdle
    /\ BuilderIdle /\ DbIdle /\ BatchIdle
    /\ call \in [fn : {"compute_dei_score", "compute_features"},
                 arg : [cv_row : [tag_cols -> TagCells], cosine : DeiCosines]]
    /\ ret = None

ComputeDeiScore ==
    /\ call.fn = "compute_dei_score"
    /\ ret = None
    /\ ret' = [value |-> batch_dei(call.arg.cv_row, call.arg.cosine)]
    /\ UNCHANGED <<call, rankVars, matchVars, ontVars,
                 builderVars, dbVars, batchVars>>

ComputeFeaturesDei ==
    /\ call.fn = "compute_features"
    /\ ret = None
    /\ ret' = [value |-> single_dei(call.arg.cv_row, call.arg.cosine)]
    /\ UNCHANGED <<call, rankVars, matchVars, ontVars,
                 builderVars, dbVars, batchVars>>

NextDei == ComputeDeiScore \/ ComputeFeaturesDei

SpecDei == InitDei /\ [][NextDei]_vars

DeiDone == ret # None /\ call.fn \in {"compute_dei_score", "compute_features"}

\* the designated tags that are true in a CV row
TrueTags(cv_row) == {col \in tag_cols : cv_row[col] = "True"}

\* C18: dei_tag_count is the number of designated tags (tag_women,
\* tag_protected_category) that are true for the candidate, an absent
\* column, a missing value and a false value counting 0, and dei_boost is
\* 0.05 x dei_tag_count, in the batch DEI stage and in the single-pair
\* service alike (so both give one CV row the same dei_boost).
C18_DeiTagCount ==
    DeiDone =>
        /\ ret.value.dei_tag_count = Cardinality(TrueTags(call.arg.cv_row))
        /\ ret.value.dei_boost = R(5 * Cardinality(TrueTags(call.arg.cv_row)), 100)

\* what does hold: the same for a CV table whose tag cells are True or empty,
\* as the dataset normalizer writes them, and for the single-pair service on
\* every table
C18_DeiTagCountOfNormalizedTable ==
    (DeiDone /\ (call.fn = "compute_features"
                 \/ \A col \in tag_cols : call.arg.cv_row[col] # "False"))
        => C18_DeiTagCount

\* the batch stage has counted a tag whose cell is False
C18_BatchCountsFalse ==
    /\ DeiDone /\ call.fn = "compute_dei_score"
    /\ call.arg.cv_row = [tag_women |-> "False", tag_protected_category |-> "NaN"]
    /\ ret.value.dei_tag_count = 1
    /\ ret.value.dei_boost = R(5, 100)

(***************************************************************************)
(* normalizzatore.py: min_experience_years of a JD                         *)
(***************************************************************************)
MIN_EXP_YEARS_DEFAULT == 2
MIN_EXP_YEARS_RANGE == <<1, 10>>
SENIORITY_TO_YEARS == [junior |-> 1, mid |-> 3, senior |-> 5]

\* A cell value is a float or a string.  A float is finite (held in tenths),
\* infinite or NaN.
Finite(tenths) == [type |-> "float", kind |-> "finite", tenths |-> tenths]
Infinite(sign) == [type |-> "float", kind |-> "inf", sign |-> sign]
NaN == [type |-> "float", kind |-> "nan"]
Str(text) == [type |-> "str", text |-> text]
ValueError == [raises |-> "ValueError"]
OverflowError == [raises |-> "OverflowError"]

\* float(value): a float is itself; a string is stripped, then a sign, then
\* inf, infinity or nan in any case, or digits with an optional point and
\* fraction (of which the texts here have at most one digit)
float(value) ==
    IF value.type = "float" THEN value
    ELSE
        LET t == lower(lstripChars(rstripChars(value.text)))
            signed == t # <<>> /\ t[1] \in {"+", "-"}
            sign == IF signed /\ t[1] = "-" THEN -1 ELSE 1
            body == IF signed THEN Tail(t) ELSE t
            q == DigitsEnd(body, 1)
            whole == SubSeq(body, 1, q)
            pointed == q + 1 <= Len(body) /\ body[q + 1] = "."
            f == IF pointed THEN DigitsEnd(body, q + 2) ELSE q
            fraction == IF pointed THEN SubSeq(body, q + 2, f) ELSE <<>>
        IN  IF body \in {<<"i", "n", "f">>, <<"i", "n", "f", "i", "n", "i", "t", "y">>} THEN Infinite(sign)
            ELSE IF body = <<"n", "a", "n">> THEN NaN
            ELSE IF f = Len(body) /\ (whole # <<>> \/ fraction # <<>>)
            THEN Finite(sign * (int(whole) * 10
                                + (IF fraction = <<>> THEN 0
                                   ELSE DigitValue(fraction[1]))))
            ELSE ValueError

\* what a call ends with: the value it returns or the exception it raises
Returns(v) == [value |-> v]
Raises(outcome) == "raises" \in DOMAIN outcome

\* int(x) of a float: the whole part, towards zero
int_of_float(x) ==
    IF x.kind = "inf" THEN OverflowError
    ELSE IF x.kind = "nan" THEN ValueError
    ELSE IF x.tenths >= 0 THEN Returns(x.tenths \div 10)
    ELSE Returns(-((-x.tenths) \div 10))

Min2(a, b) == IF a < b THEN a ELSE b
Max2(a, b) == IF a > b THEN a ELSE b

\* max(min_val, min(max_val, years))
Clamp(years) ==
    Max2(MIN_EXP_YEARS_RANGE[1], Min2(MIN_EXP_YEARS_RANGE[2], years))

\* Python's None, the default of the seniority parameter
NoSeniority == "<None>"

\* the second and third tier: the table, else the default
infer_from_seniority(seniority) ==
    IF seniority \notin {NoSeniority, ""} /\ seniority \in DOMAIN SENIORITY_TO_YEARS
    THEN Returns(SENIORITY_TO_YEARS[seniority])
    ELSE Returns(MIN_EXP_YEARS_DEFAULT)

\* the value returned, or the exception that leaves the function: only
\* ValueError and TypeError are caught
normalize_min_experience_years(value, seniority) ==
    IF value # NaN
    THEN LET x == float(value)
             years == IF Raises(x) THEN x ELSE int_of_float(x)
         IN  IF ~Raises(years) THEN Returns(Clamp(years.value))
             ELSE IF years = ValueError THEN infer_from_seniority(seniority)
             ELSE years
    ELSE infer_from_seniority(seniority)

\* normalize_jd_dataset when the table has no min_experience_years column
infer_column(seniority) ==
    IF seniority \in DOMAIN SENIORITY_TO_YEARS
    THEN SENIORITY_TO_YEARS[seniority] ELSE MIN_EXP_YEARS_DEFAULT

\* the cells of the min_experience_years column: floats from -1.5 to 12.5,
\* both infinities, the empty cell, and texts
MinYearsTexts ==
    { <<"5">>,
      <<"1", "2">>,
      <<"0">>,
      <<"2", ".", "7">>,
      <<" ", "7", " ">>,
      <<"-", "3">>,
      <<"a", "b", "c">>,
      <<>>,
      <<"i", "n", "f">>,
      <<"-", "I", "n", "f", "i", "n", "i", "t", "y">>,
      <<"n", "a", "n">>,
      <<"+", "4", ".", "0">> }

MinYearsValues ==
    {Finite(t) : t \in -15..125} \cup {Infinite(1), Infinite(-1), NaN}
        \cup {Str(t) : t \in MinYearsTexts}

\* constraints_seniority_normalized, or no seniority
Seniorities == {"junior", "mid", "senior", "lead", "", NoSeniority}

InitMinYears ==
    /\ RankIdle /\ MatchIdle /\ OntologyIdle
    /\ BuilderIdle /\ DbIdle /\ BatchIdle
    /\ call \in [fn : {"normalize_min_experience_years"},
                 arg : [value : MinYearsValues, seniority : Seniorities]]
              \cup [fn : {"normalize_jd_dataset"},
                    arg : [seniority : Seniorities \ {NoSeniority}]]
    /\ ret = None

NormalizeMinExperienceYears ==
    /\ call.fn = "normalize_min_experience_years"
    /\ ret = None
    /\ ret' = normalize_min_experience_years(call.arg.value, call.arg.seniority)
    /\ UNCHANGED <<call, rankVars, matchVars, ontVars,
                 builderVars, dbVars, batchVars>>

NormalizeJdDataset ==
    /\ call.fn = "normalize_jd_dataset"
    /\ ret = None
    /\ ret' = [value |-> infer_column(call.arg.seniority)]
    /\ UNCHANGED <<call, rankVars, matchVars, ontVars,
                 builderVars, dbVars, batchVars>>

NextMinYears == NormalizeMinExperienceYears \/ NormalizeJdDataset

SpecMinYears == InitMinYears /\ [][NextMinYears]_vars

MinYearsDone == ret # None /\ call.fn = "normalize_min_experience_years"

\* the number a provided value stands for: <<TRUE, tenths>>, an infinity
\* being beyond every bound, or <<FALSE, 0>> when the value is no number
Huge == MIN_EXP_YEARS_RANGE[2] * 100
NumberOf(value) ==
    LET x == float(value)
    IN  IF Raises(x) \/ x.kind = "nan" THEN <<FALSE, 0>>
        ELSE IF x.kind = "inf" THEN <<TRUE, x.sign * Huge>>
        ELSE <<TRUE, x.tenths>>

\* the table of the claim
TableYears(seniority) ==
    CASE seniority = "junior" -> <<TRUE, 1>>
      [] seniority = "mid" -> <<TRUE, 3>>
      [] seniority = "senior" -> <<TRUE, 5>>
      [] OTHER -> <<FALSE, 0>>

\* C19: normalize_min_experience_years returns, for every input, an
\* integer in 1..10: the provided value clamped into [1, 10] when a numeric
\* value is provided (its whole part when it lies inside), else the years
\* of the table junior 1, mid 3, senior 5 for the normalized seniority,
\* else the default 2.
C19_ThreeTierFallback ==
    MinYearsDone =>
        LET number == NumberOf(call.arg.value)
            table == TableYears(call.arg.seniority)
        IN  /\ ~Raises(ret)
            /\ ret.value \in 1..10
            /\ number[1] =>
                  /\ number[2] < 10 => ret.value = 1
                  /\ number[2] >= 100 => ret.value = 10
                  /\ number[2] \in 10..109 =>
                        (ret.value * 10 <= number[2] /\ number[2] < ret.value * 10 + 10)
            /\ (~number[1] /\ table[1]) => ret.value = table[2]
            /\ (~number[1] /\ ~table[1]) => ret.value = 2

\* what does hold: the same for every value that is not an infinity
C19_ThreeTierFallbackOfFinite ==
    (MinYearsDone /\ (NumberOf(call.arg.value)[1] =>
                         Abs(NumberOf(call.arg.value)[2]) < Huge))
        => C19_ThreeTierFallback

\* an infinite value has left the function with an OverflowError
C19_InfinityRaises ==
    /\ MinYearsDone
    /\ call.arg.value = Str(<<"i", "n", "f">>)
    /\ ret = OverflowError

(***************************************************************************)
(* calculate_years_of_experience evaluated again at later times: a         *)
(* position written as current ends at datetime.now() of each evaluation   *)
(***************************************************************************)
\* positions still held, and past positions with whole-year dates
CurrentItems ==
    {item \in ExperienceItems : item.is_current /\ item.end_date.fmt = ""}
PastItems ==
    {item \in ExperienceItems :
        ~item.is_current /\ item.start_date.fmt = "Y" /\ item.end_date.fmt = "Y"}

\* CVs with a position still held
CurrentItemLists ==
    {<<c>> : c \in CurrentItems}
        \cup {<<past, c>> : past \in PastItems, c \in CurrentItems}
        \cup {<<c, d>> : c \in CurrentItems, d \in CurrentItems}

\* the times of the evaluations
ClockDates == {<<2019, 12, 31>>, <<2021, 3, 15>>, <<2024, 2, 29>>, <<2026, 11, 1>>}

Evaluation(now, value) == [now |-> now, value |-> value]

InitClock ==
    /\ RankIdle /\ MatchIdle /\ OntologyIdle
    /\ BuilderIdle /\ DbIdle /\ BatchIdle
    /\ call \in [fn : {"calculate_years_of_experience"},
                 arg : [items : CurrentItemLists, now : ClockDates]]
    /\ ret = None

\* the first evaluation
CalculateNow ==
    /\ ret = None
    /\ LET value == calculate_years_of_experience(
                        concatenate_experience(call.arg.items), call.arg.now)
       IN  /\ ret' = [value |-> value]
           /\ log' = Append(log, Evaluation(call.arg.now, value))
    /\ UNCHANGED <<call, rankVars, matchVars, ontology_file, ontology,
                 builderVars, dbVars, batchVars>>

\* the same experience string evaluated at a later time
CalculateLater ==
    /\ ret # None
    /\ \E later \in ClockDates :
        /\ toordinal(later) > toordinal(call.arg.now)
        /\ LET value == calculate_years_of_experience(
                            concatenate_experience(call.arg.items), later)
           IN  /\ call' = [call EXCEPT !.arg.now = later]
               /\ ret' = [value |-> value]
               /\ log' = Append(log, Evaluation(later, value))
    /\ UNCHANGED <<rankVars, matchVars, ontology_file, ontology,
                 builderVars, dbVars, batchVars>>

NextClock == CalculateNow \/ CalculateLater

SpecClock == InitClock /\ [][NextClock]_vars

\* C20: for an experience string with a segment that ends in a 'present'
\* sentinel, an evaluation of calculate_years_of_experience at a later time
\* never returns less than an evaluation at an earlier time, and no
\* evaluation returns a negative number.
C20_NeverDecreasesNeverNegative ==
    /\ \A i \in DOMAIN log : log[i].value >= 0
    /\ \A i, k \in DOMAIN log :
          toordinal(log[i].now) < toordinal(log[k].now) =>
              log[i].value <= log[k].value

\* '[2022 - Present]' was evaluated before its start and gave 0.0, then in
\* 2024 and gave 2.2, then in 2026 and gave 4.8
C20_Witness ==
    /\ call.arg.items =
           <<[start_date |-> [fmt |-> "Y", y |-> 2022, m |-> 1],
              end_date |-> [fmt |-> "", y |-> 0, m |-> 0],
              is_current |-> TRUE]>>
    /\ log = <<Evaluation(<<2021, 3, 15>>, 0), Evaluation(<<2024, 2, 29>>, 22),
               Evaluation(<<2026, 11, 1>>, 48)>>
    /\ ret = [value |-> 48]

(***************************************************************************)
(* normalizzatore.py: a run of the dataset normalizer, and a second run    *)
(* that reads the tables the first one wrote.  A text cell is the list of  *)
(* its comma-separated items; <<>> is the empty cell, which read_csv       *)
(* gives as NaN and for which every function answers "".                   *)
(***************************************************************************)
\* SkillOntology.normalize_skill, the value it returns
normalize_skill(skill) ==
    LET skill_clean == lstripChars(rstripChars(skill))
        skill_lower == lower(skill_clean)
    IN  IF \E kv \in skill_mappings : kv[1] = skill_lower
        THEN (CHOOSE kv \in skill_mappings : kv[1] = skill_lower)[2]
        ELSE capitalize(skill_clean)

\* the items of a list, each kept where it occurs first
RECURSIVE unique_skills(_)
unique_skills(skills) ==
    IF skills = <<>> THEN <<>>
    ELSE LET rest == unique_skills(SubSeq(skills, 1, Len(skills) - 1))
             last == skills[Len(skills)]
         IN  IF last = <<>> \/ \E k \in DOMAIN rest : rest[k] = last
             THEN rest ELSE Append(rest, last)

normalize_skills_string(skills) ==
    LET kept == SelectSeq(skills, LAMBDA x : lstripChars(rstripChars(x)) # <<>>)
    IN  unique_skills([k \in DOMAIN kept |-> normalize_skill(kept[k])])

\* a tag cell normalized by truth value: NaN, the empty cell, is true
TruthyTag(x) == IF x \in {"False", "None"} THEN "None" ELSE "True"

\* True if x is True else None
normalize_tag(x) == IF x = "True" THEN "True" ELSE "None"

\* infer_seniority_from_experience and the other columns of a CV row; the
\* columns written override the ones read
normalize_cv_row(row, now) ==
    LET years == calculate_years_of_experience(
                     concatenate_experience(row.experience), now)
    IN  [ skills_normalized |-> normalize_skills_string(row.skills),
          inferred_seniority |-> infer_seniority(years),
          years_of_experience |-> years,
          tag_women |-> normalize_tag(row.tag_women) ] @@ row

normalize_jd_row(row, seniority_mappings) ==
    LET seniority == normalize_seniority(row.constraints_seniority, seniority_mappings)
    IN  [ requirements_normalized |-> normalize_skills_string(row.requirements),
          constraints_seniority_normalized |-> seniority,
          min_experience_years_normalized |->
              normalize_min_experience_years(row.min_experience_years,
                                             seniority).value ] @@ row

\* df.to_csv(output_path) read back by pd.read_csv: None is written as the
\* empty cell and read as NaN
read_csv(row) ==
    IF "tag_women" \in DOMAIN row
    THEN [row EXCEPT !.tag_women = IF @ = "None" THEN "NaN" ELSE @]
    ELSE row

\* the rows of cv_dataset.csv and jd_dataset.csv
CvDatasetRows ==
    [ skills : { <<>>, <<<<"J", "S">>, <<" ", "g", "o">>>>, <<<<"R", "u", "s", "t">>, <<"r", "u", "s", "t">>>>,
                  <<<<"j", "s">>, <<"J", "s">>, <<"G", "o">>>> },
      experience : {<<c>> : c \in {i \in CurrentItems \cup PastItems :
                                      i.start_date.fmt \in {"Y", "Mon Y"}}},
      tag_women : {"True", "False", "NaN"} ]

JdDatasetRows ==
    [ requirements : {<<>>, <<<<"J", "S">>, <<"R", "u", "s", "t">>>>},
      constraints_seniority :
          {<<>>, Words.Senior, Words.junior, <<"5", "+", " ">> \o Words.years},
      min_experience_years : {NaN, Finite(27), Finite(120)} ]

InitNormalizer ==
    /\ RankIdle /\ MatchIdle /\ OntologyIdle
    /\ BuilderIdle /\ DbIdle /\ BatchIdle
    /\ call \in [fn : {"main"},
                 arg : [cv : CvDatasetRows, jd : JdDatasetRows,
                        seniority_mappings : SeniorityMappings]]
    /\ ret = None

Run(now, cv, jd) == [now |-> now, cv |-> cv, jd |-> jd]

\* main: the first run, over the tables of the dataset builders
NormalizeDatasets ==
    /\ ret = None
    /\ \E now \in ClockDates :
        LET out == Run(now, normalize_cv_row(call.arg.cv, now),
                       normalize_jd_row(call.arg.jd, call.arg.seniority_mappings))
        IN  /\ ret' = [value |-> out]
            /\ log' = <<out>>
    /\ UNCHANGED <<call, rankVars, matchVars, ontology_file, ontology,
                 builderVars, dbVars, batchVars>>

\* main again, the tables of the first run being its input
NormalizeNormalized ==
    /\ ret # None /\ Len(log) = 1
    /\ \E now \in ClockDates :
        /\ toordinal(now) >= toordinal(ret.value.now)
        /\ LET out == Run(now, normalize_cv_row(read_csv(ret.value.cv), now),
                          normalize_jd_row(read_csv(ret.value.jd),
                                           call.arg.seniority_mappings))
           IN  /\ ret' = [value |-> out]
               /\ log' = Append(log, out)
    /\ UNCHANGED <<call, rankVars, matchVars, ontology_file, ontology,
                 builderVars, dbVars, batchVars>>

NextNormalizer == NormalizeDatasets \/ NormalizeNormalized

SpecNormalizer == InitNormalizer /\ [][NextNormalizer]_vars

RanTwice == Len(log) = 2

\* the columns the normalizer writes
CvColumnsWritten ==
    {"skills_normalized", "inferred_seniority", "years_of_experience", "tag_women"}
JdColumnsWritten ==
    { "requirements_normalized", "constraints_seniority_normalized",
      "min_experience_years_normalized" }
ClockColumns == {"inferred_seniority", "years_of_experience"}

\* C21: a second run of the normalizer over the tables its first run wrote,
\* with the same ontology mappings, writes the same normalized and derived
\* columns as the first run.
C21_SecondRunIdentical ==
    RanTwice =>
        /\ \A c \in CvColumnsWritten : log[2].cv[c] = log[1].cv[c]
        /\ \A c \in JdColumnsWritten : log[2].jd[c] = log[1].jd[c]

\* C21 amended: the same, except that years_of_experience and
\* inferred_seniority of a CV with a position still held follow the date of
\* the run, so they are the same when both runs are made on the same date.
C21_SecondRunIdenticalButClock ==
    RanTwice =>
        /\ \A c \in CvColumnsWritten \ ClockColumns : log[2].cv[c] = log[1].cv[c]
        /\ \A c \in JdColumnsWritten : log[2].jd[c] = log[1].jd[c]
        /\ (log[2].now = log[1].now \/ ~call.arg.cv.experience[1].is_current) =>
               \A c \in ClockColumns : log[2].cv[c] = log[1].cv[c]
        /\ \A c \in DOMAIN call.arg.cv \ {"tag_women"} : log[2].cv[c] = call.arg.cv[c]
        /\ \A c \in DOMAIN call.arg.jd : log[2].jd[c] = call.arg.jd[c]

\* the second run was made on the date of the first, over a CV with a False
\* tag and the skills 'js, Js, Go' and a JD asking for '5+ years'
C21_Witness ==
    /\ RanTwice
    /\ log[2].now = log[1].now
    /\ call.arg.cv.tag_women = "False" /\ log[2].cv.tag_women = "None"
    /\ call.arg.cv.experience[1].is_current
    /\ log[2].cv.skills_normalized = <<<<"J", "a", "v", "a", "S", "c", "r", "i", "p", "t">>, <<"G", "o">>>>
    /\ call.arg.jd.constraints_seniority = <<"5", "+", " ">> \o Words.years
    /\ log[2].jd.constraints_seniority_normalized = "senior"
    /\ log[2].jd.min_experience_years_normalized = 10

(***************************************************************************)
(* jd_json_to_dataset_processor.py: the JD dataset builder.  A JSON file   *)
(* is its name and the jd_id it carries; a row of jd_dataset.csv is its    *)
(* jd_id and the file it was made from.                                    *)
(***************************************************************************)
\* the orders in which glob may list the files of a folder
Orders(folder) ==
    {order \in [1..Cardinality(folder) -> folder] :
        \A i, k \in DOMAIN order : order[i] = order[k] => i = k}

\* the CSV file of some rows, and the rows of a CSV (none while there is no file)
Csv(rows) == [rows |-> rows]

Rows(csv) == IF csv = None THEN <<>> ELSE csv.rows

get_active_jd_ids(json_files) ==
    {json_files[k].jd_id : k \in DOMAIN json_files} \ {""}

\* the CSV after clean_deleted_jds
clean_deleted_jds(csv, active_jd_ids) ==
    IF csv = None THEN csv
    ELSE LET deleted_jds == {k \in DOMAIN csv.rows :
                                /\ csv.rows[k].jd_id # ""
                                /\ csv.rows[k].jd_id \notin active_jd_ids}
         IN  IF deleted_jds = {} THEN csv
             ELSE Csv(SelectSeq(csv.rows, LAMBDA row :
                                    row.jd_id \in active_jd_ids \/ row.jd_id = ""))

\* get_existing_jd_ids: the last row of each jd_id
get_existing_jd_ids(csv) ==
    LET rows == Rows(csv)
        ids == {rows[k].jd_id : k \in DOMAIN rows} \ {""}
    IN  [id \in ids |->
            CHOOSE k \in DOMAIN rows :
                rows[k].jd_id = id /\ \A z \in DOMAIN rows : rows[z].jd_id = id => z <= k]

json_to_row(file) == [jd_id |-> file.jd_id, source_file |-> file.name]

\* existing_df.at[row_index, col] = value, for the updates in their order
RECURSIVE ApplyUpdates(_, _, _)
ApplyUpdates(rows, updates, jd_id_to_index) ==
    IF updates = <<>> THEN rows
    ELSE ApplyUpdates([rows EXCEPT ![jd_id_to_index[Head(updates).jd_id]] =
                                       json_to_row(Head(updates))],
                      Tail(updates), jd_id_to_index)

\* process_files over the files in the order glob lists them:
\* <<the CSV afterwards, the value returned>>
jd_process_files(json_files, csv) ==
    IF json_files = <<>> THEN <<csv, FALSE>>
    ELSE
        LET cleaned == clean_deleted_jds(csv, get_active_jd_ids(json_files))
            jd_id_to_index == get_existing_jd_ids(cleaned)
            files_to_update ==
                SelectSeq(json_files, LAMBDA f :
                              f.jd_id # "" /\ f.jd_id \in DOMAIN jd_id_to_index)
            files_to_add ==
                SelectSeq(json_files, LAMBDA f :
                              f.jd_id = "" \/ f.jd_id \notin DOMAIN jd_id_to_index)
            rows_to_add == [k \in DOMAIN files_to_add |-> json_to_row(files_to_add[k])]
        IN  IF cleaned # None
            THEN <<Csv(ApplyUpdates(cleaned.rows, files_to_update, jd_id_to_index)
                           \o rows_to_add), TRUE>>
            ELSE <<Csv(rows_to_add), TRUE>>

JsonNames == {"a.json", "b.json", "c.json"}
JdFileIds == {"jd1", "jd2"}

InitJdBuilder ==
    /\ RankIdle /\ MatchIdle /\ CallIdle /\ OntologyIdle /\ DbIdle /\ BatchIdle
    /\ json_folder = {}
    /\ dataset_csv = None

\* a JD is created: its JSON file is written to the input folder
WriteJdJson ==
    /\ \E name \in JsonNames, jd_id \in JdFileIds :
        /\ \A f \in json_folder : f.name # name
        /\ json_folder' = json_folder \cup {[name |-> name, jd_id |-> jd_id]}
    /\ call' = None /\ ret' = None
    /\ UNCHANGED <<dataset_csv, rankVars, matchVars, ontVars, dbVars, batchVars>>

\* a JD is deleted: its JSON file is removed
DeleteJdJson ==
    /\ \E f \in json_folder : json_folder' = json_folder \ {f}
    /\ call' = None /\ ret' = None
    /\ UNCHANGED <<dataset_csv, rankVars, matchVars, ontVars, dbVars, batchVars>>

JdProcessFiles ==
    /\ \E json_files \in Orders(json_folder) :
        LET done == jd_process_files(json_files, dataset_csv)
        IN  /\ dataset_csv' = done[1]
            /\ call' = [fn |-> "process_files", arg |-> json_files]
            /\ ret' = [value |-> done[2]]
    /\ UNCHANGED <<json_folder, rankVars, matchVars, ontVars, dbVars, batchVars>>

NextJdBuilder == WriteJdJson \/ DeleteJdJson \/ JdProcessFiles

SpecJdBuilder == InitJdBuilder /\ [][NextJdBuilder]_vars

\* process_files has run and the folder is as the run found it
JdBuilderRan == ret # None

RowsOf(jd_id) ==
    {k \in DOMAIN Rows(dataset_csv) : Rows(dataset_csv)[k].jd_id = jd_id}

\* C22: after a run of process_files, jd_dataset.csv holds exactly one row
\* for each jd_id that has a JSON file in the input folder and no row for a
\* jd_id that has none, also when the folder is empty and when two files
\* carry the same jd_id.
C22_OneRowPerActiveJd ==
    JdBuilderRan =>
        LET active == {f.jd_id : f \in json_folder}
        IN  /\ \A jd_id \in active : Cardinality(RowsOf(jd_id)) = 1
            /\ \A jd_id \in JdFileIds \ active : RowsOf(jd_id) = {}

\* what does hold: after a run that found a file, every jd_id with a file
\* has a row and no other jd_id has one
C22_PrunedWhenFilesRemain ==
    (JdBuilderRan /\ json_folder # {}) =>
        LET active == {f.jd_id : f \in json_folder}
        IN  /\ \A jd_id \in active : RowsOf(jd_id) # {}
            /\ \A jd_id \in JdFileIds \ active : RowsOf(jd_id) = {}

\* a run over an empty folder has left the row of a deleted JD in the CSV
C22_StaleRowOfEmptyFolder ==
    /\ JdBuilderRan /\ json_folder = {}
    /\ ret.value = FALSE
    /\ RowsOf("jd1") # {}

\* a run over two new files with the same jd_id has written two rows of it
C22_TwoRowsOfOneJd ==
    /\ JdBuilderRan
    /\ json_folder = {[name |-> "a.json", jd_id |-> "jd1"],
                      [name |-> "b.json", jd_id |-> "jd1"]}
    /\ Cardinality(RowsOf("jd1")) = 2

(***************************************************************************)
(* cv_json_to_dataset_processor.py: the CV dataset builder.  A JSON file   *)
(* is its name, its user_id and its file_sha256 ("" when absent); a row of *)
(* cv_dataset.csv is its user_id, its file_sha256 and its source file.     *)
(***************************************************************************)
\* get_existing_identifiers: <<existing_sha256, user_id_to_index>>
get_existing_identifiers(csv) ==
    LET rows == Rows(csv)
        users == {rows[k].user_id : k \in DOMAIN rows} \ {""}
    IN  <<{rows[k].file_sha256 : k \in DOMAIN rows} \ {""},
          [user_id \in users |->
              CHOOSE k \in DOMAIN rows :
                  /\ rows[k].user_id = user_id
                  /\ \A z \in DOMAIN rows : rows[z].user_id = user_id => z <= k]>>

cv_json_to_row(file) ==
    [user_id |-> file.user_id, file_sha256 |-> file.sha256, source_file |-> file.name]

\* existing_df.at[row_index, col] = value, for rows_to_update in their order
RECURSIVE ApplyRowUpdates(_, _)
ApplyRowUpdates(rows, rows_to_update) ==
    IF rows_to_update = <<>> THEN rows
    ELSE ApplyRowUpdates([rows EXCEPT ![Head(rows_to_update)[1]] = Head(rows_to_update)[2]],
                         Tail(rows_to_update))

\* process_files over the files in the order glob lists them:
\* <<the CSV afterwards, the value returned, the files moved to cvs_processed>>
cv_process_files(json_files, csv) ==
    IF json_files = <<>> THEN <<csv, FALSE, {}>>
    ELSE
        LET existing_sha256 == get_existing_identifiers(csv)[1]
            user_id_to_index == get_existing_identifiers(csv)[2]
            known(f) == f.sha256 # "" /\ f.sha256 \in existing_sha256
            indexed(f) == f.user_id # "" /\ f.user_id \in DOMAIN user_id_to_index
            files_to_update ==
                SelectSeq(json_files, LAMBDA f :
                              ~known(f) /\ indexed(f) /\ f.sha256 # "")
            files_to_add ==
                SelectSeq(json_files, LAMBDA f : ~known(f) /\ ~indexed(f))
            rows_to_add == [k \in DOMAIN files_to_add |-> cv_json_to_row(files_to_add[k])]
            rows_to_update ==
                [k \in DOMAIN files_to_update |->
                    <<user_id_to_index[files_to_update[k].user_id],
                      cv_json_to_row(files_to_update[k])>>]
            moved == {json_files[k] : k \in DOMAIN json_files}
        IN  IF files_to_add = <<>> /\ files_to_update = <<>>
            THEN <<csv, TRUE, moved>>
            ELSE IF csv # None
                 THEN <<Csv(ApplyRowUpdates(csv.rows, rows_to_update) \o rows_to_add),
                        TRUE, moved>>
                 ELSE <<Csv(rows_to_add), TRUE, moved>>

CvJsonNames == {"a.json", "b.json"}
CvUserIds == {"u1", "u2"}
CvShas == {"", "s1", "s2"}

InitCvBuilder ==
    /\ RankIdle /\ MatchIdle /\ CallIdle /\ OntologyIdle /\ DbIdle /\ BatchIdle
    /\ json_folder = {}
    /\ dataset_csv = None

\* the backend saves a parsed CV as a JSON file of the input folder
WriteCvJson ==
    /\ \E name \in CvJsonNames, user_id \in CvUserIds, sha256 \in CvShas :
        /\ \A f \in json_folder : f.name # name
        /\ json_folder' = json_folder \cup
               {[name |-> name, user_id |-> user_id, sha256 |-> sha256]}
    /\ call' = None /\ ret' = None
    /\ UNCHANGED <<dataset_csv, rankVars, matchVars, ontVars, dbVars, batchVars>>

CvProcessFiles ==
    /\ \E json_files \in Orders(json_folder) :
        LET done == cv_process_files(json_files, dataset_csv)
        IN  /\ dataset_csv' = done[1]
            /\ json_folder' = json_folder \ done[3]
            /\ call' = [fn |-> "process_files", arg |-> json_files]
            /\ ret' = [value |-> done[2]]
    /\ UNCHANGED <<rankVars, matchVars, ontVars, dbVars, batchVars>>

NextCvBuilder == WriteCvJson \/ CvProcessFiles

SpecCvBuilder == InitCvBuilder /\ [][NextCvBuilder]_vars

RowsOfUser(csv, user_id) ==
    {k \in DOMAIN Rows(csv) : Rows(csv)[k].user_id = user_id}

\* C23: after any sequence of runs of process_files, cv_dataset.csv holds at
\* most one row per non-empty user_id, also when two files of one batch
\* belong to the same user.
C23_OneRowPerUser ==
    \A user_id \in CvUserIds : Cardinality(RowsOfUser(dataset_csv, user_id)) <= 1

\* what does hold: a run adds no row for a user who already has one
C23_ExistingUserKeepsOneRow ==
    [][\A user_id \in CvUserIds :
          RowsOfUser(dataset_csv, user_id) # {} =>
              RowsOfUser(dataset_csv', user_id) = RowsOfUser(dataset_csv, user_id)]_vars

\* one batch with two files of a user who had no row has written two rows
C23_TwoRowsOfOneUser ==
    /\ ret = [value |-> TRUE]
    /\ Len(call.arg) = 2
    /\ call.arg[1].user_id = "u1" /\ call.arg[2].user_id = "u1"
    /\ Cardinality(RowsOfUser(dataset_csv, "u1")) = 2

(***************************************************************************)
(* backend/app/api/parse.py: _save_parsed_cv_to_db, called concurrently.   *)
(* `documents` holds the committed CV rows in commit order; what a call    *)
(* has locked, updated and inserted without committing is in its entry of  *)
(* `sessions`.  Statements run under READ COMMITTED.                       *)
(***************************************************************************)
MaxCalls == 3

DbUsers == {"u1", "u2"}

\* the transaction of call t is open
Open(t) == sessions[t].pc \in {"select", "wait", "update", "insert", "exit", "returned"}

\* call t has made its UPDATE and not committed it
Updated(t) == sessions[t].pc \in {"insert", "exit", "returned"} /\ sessions[t].old_cv # 0

\* call t has made its INSERT and not committed it
Inserted(t) == sessions[t].pc \in {"exit", "returned"}

Others(t) == DOMAIN sessions \ {t}

LockedByOther(t, id) == \E u \in Others(t) : Open(u) /\ id \in sessions[u].locked

\* the committed rows: user_id = :user_id AND type = 'cv' AND is_latest = true
Latest(user_id) ==
    {documents[k].id : k \in {z \in DOMAIN documents :
                                 documents[z].user_id = user_id /\ documents[z].is_latest}}

\* the index dropped
NoUniqueIndex(t) == "free"

\* CREATE UNIQUE INDEX unique_latest_cv_per_user ON documents(user_id)
\* WHERE is_latest = true: what the index answers to the INSERT of call t,
\* "wait" while another transaction's change of the user's entry is pending
unique_latest_cv_per_user(t) ==
    LET user_id == sessions[t].user_id
        mine == {sessions[t].old_cv}
        pending == \E u \in Others(t) :
                       /\ sessions[u].user_id = user_id
                       /\ Inserted(u) \/ (Updated(u) /\ sessions[u].old_cv \notin mine)
    IN  IF pending THEN "wait"
        ELSE IF Latest(user_id) \ mine # {} THEN "IntegrityError"
        ELSE "free"

\* the table after the commit of call t
Committed(t) ==
    [k \in DOMAIN documents |->
        IF documents[k].id = sessions[t].old_cv
        THEN [documents[k] EXCEPT !.is_latest = FALSE]
        ELSE documents[k]]
    \o <<[id |-> t, user_id |-> sessions[t].user_id, is_latest |-> TRUE]>>

InitDb ==
    /\ RankIdle /\ MatchIdle /\ CallIdle /\ OntologyIdle /\ BuilderIdle /\ BatchIdle
    /\ documents = <<>>
    /\ sessions = <<>>

\* a request calls _save_parsed_cv_to_db: db.begin_nested() if the session
\* is already in a transaction, db.begin() otherwise
SaveParsedCvToDb ==
    /\ Len(sessions) < MaxCalls
    /\ \E user_id \in DbUsers, nested \in BOOLEAN :
        sessions' = Append(sessions,
            [user_id |-> user_id, nested |-> nested, pc |-> "select",
             seen |-> {}, locked |-> {}, old_cv |-> 0])
    /\ UNCHANGED <<documents, rankVars, matchVars, callVars, ontVars, builderVars, batchVars>>

\* select(Document).with_for_update().where(...): the rows of the
\* statement's snapshot are locked, or the call waits for their locker
SelectForUpdate(t) ==
    /\ sessions[t].pc = "select"
    /\ LET rows == Latest(sessions[t].user_id)
       IN  IF \E id \in rows : LockedByOther(t, id)
           THEN sessions' = [sessions EXCEPT ![t].pc = "wait", ![t].seen = rows]
           ELSE \E old_cv \in (IF rows = {} THEN {0} ELSE rows) :
                   sessions' = [sessions EXCEPT ![t].pc = "update", ![t].seen = rows,
                                                ![t].locked = rows, ![t].old_cv = old_cv]
    /\ UNCHANGED <<documents, rankVars, matchVars, callVars, ontVars, builderVars, batchVars>>

\* the locker has ended: the rows waited for are checked again against the
\* WHERE clause, rows committed meanwhile are not seen
LockGranted(t) ==
    /\ sessions[t].pc = "wait"
    /\ \A id \in sessions[t].seen : ~LockedByOther(t, id)
    /\ LET rows == sessions[t].seen \cap Latest(sessions[t].user_id)
       IN  \E old_cv \in (IF rows = {} THEN {0} ELSE rows) :
               sessions' = [sessions EXCEPT ![t].pc = "update", ![t].locked = rows,
                                            ![t].old_cv = old_cv]
    /\ UNCHANGED <<documents, rankVars, matchVars, callVars, ontVars, builderVars, batchVars>>

\* db.flush(), first statement: UPDATE documents SET is_latest = false
FlushUpdate(t) ==
    /\ sessions[t].pc = "update"
    /\ sessions' = [sessions EXCEPT ![t].pc = "insert"]
    /\ UNCHANGED <<documents, rankVars, matchVars, callVars, ontVars, builderVars, batchVars>>

\* db.flush(), second statement: INSERT of new_doc with is_latest = true;
\* an IntegrityError leaves the `with` block and rolls the transaction back
FlushInsert(t) ==
    /\ sessions[t].pc = "insert"
    /\ unique_latest_cv_per_user(t) # "wait"
    /\ sessions' = [sessions EXCEPT
           ![t].pc = IF unique_latest_cv_per_user(t) = "free" THEN "exit" ELSE "raised",
           ![t].locked = IF unique_latest_cv_per_user(t) = "free" THEN @ ELSE {}]
    /\ UNCHANGED <<documents, rankVars, matchVars, callVars, ontVars, builderVars, batchVars>>

\* return new_doc: the `with` block commits db.begin(), or releases the
\* savepoint of db.begin_nested() and leaves the outer transaction open
ReturnNewDoc(t) ==
    /\ sessions[t].pc = "exit"
    /\ IF sessions[t].nested
       THEN /\ sessions' = [sessions EXCEPT ![t].pc = "returned"]
            /\ UNCHANGED documents
       ELSE /\ sessions' = [sessions EXCEPT ![t].pc = "done", ![t].locked = {}]
            /\ documents' = Committed(t)
    /\ UNCHANGED <<rankVars, matchVars, callVars, ontVars, builderVars, batchVars>>

\* the caller's session commits the outer transaction
OuterCommit(t) ==
    /\ sessions[t].pc = "returned"
    /\ sessions' = [sessions EXCEPT ![t].pc = "done", ![t].locked = {}]
    /\ documents' = Committed(t)
    /\ UNCHANGED <<rankVars, matchVars, callVars, ontVars, builderVars, batchVars>>

\* the caller's session is closed without a commit
OuterRollback(t) ==
    /\ sessions[t].pc = "returned"
    /\ sessions' = [sessions EXCEPT ![t].pc = "rolled_back", ![t].locked = {}]
    /\ UNCHANGED <<documents, rankVars, matchVars, callVars, ontVars, builderVars, batchVars>>

NextDb ==
    \/ SaveParsedCvToDb
    \/ \E t \in DOMAIN sessions : SelectForUpdate(t)
    \/ \E t \in DOMAIN sessions : LockGranted(t)
    \/ \E t \in DOMAIN sessions : FlushUpdate(t)
    \/ \E t \in DOMAIN sessions : FlushInsert(t)
    \/ \E t \in DOMAIN sessions : ReturnNewDoc(t)
    \/ \E t \in DOMAIN sessions : OuterCommit(t)
    \/ \E t \in DOMAIN sessions : OuterRollback(t)

SpecDb == InitDb /\ [][NextDb]_vars

\* the CV documents of a user as call t sees them once it has returned:
\* the committed rows with its own UPDATE, and its new_doc
LatestSeenBy(t) ==
    (Latest(sessions[t].user_id) \ {sessions[t].old_cv}) \cup {t}

LastCommitted(user_id) ==
    LET rows == {k \in DOMAIN documents : documents[k].user_id = user_id}
    IN  documents[CHOOSE k \in rows : \A z \in rows : z <= k]

\* C24: after any interleaving of concurrent _save_parsed_cv_to_db calls, at
\* most one CV document of a user has is_latest = true, and the document of a
\* call that returned is the one marked latest: in the call's own
\* transaction when it returns, and in the table from its commit until the
\* next call's commit.
C24_OneLatestPerUser ==
    /\ \A user_id \in DbUsers : Cardinality(Latest(user_id)) <= 1
    /\ \A user_id \in DbUsers :
           (\E k \in DOMAIN documents : documents[k].user_id = user_id)
               => LastCommitted(user_id).is_latest
    /\ \A t \in DOMAIN sessions :
           sessions[t].pc = "returned" => LatestSeenBy(t) = {t}

\* two first uploads of one user ran concurrently: one has committed its
\* document, the other has ended with the IntegrityError of the index
C24_Witness ==
    \E t, u \in DOMAIN sessions :
        /\ t # u /\ sessions[t].user_id = sessions[u].user_id
        /\ sessions[t].old_cv = 0 /\ sessions[u].old_cv = 0
        /\ sessions[t].pc = "done" /\ sessions[u].pc = "raised"
        /\ Latest(sessions[t].user_id) = {t}

(***************************************************************************)
(* backend/app/api/parse.py and jd.py: the triggers of the NLP batch       *)
(* pipeline.  Each invocation is a background task of the thread pool (or  *)
(* the Popen of a JD creation); `invocations` holds its trigger, its       *)
(* position and the outcome of its subprocess.                             *)
(***************************************************************************)
MaxInvocations == 3

\* the callers of _start_batch_process
BatchTriggers == {"upload_cv", "replace_skills", "batch_process"}

Outcomes == {"success", "non_zero_exit", "timeout"}

\* _batch_status as the module defines it
batch_status_initial ==
    [running |-> FALSE, last_started_at |-> "None", last_completed_at |-> "None",
     last_error |-> "None"]

InitBatch ==
    /\ RankIdle /\ MatchIdle /\ CallIdle /\ OntologyIdle /\ BuilderIdle /\ DbIdle
    /\ batch_status = batch_status_initial
    /\ invocations = <<>>

At(i, pc) == invocations[i].pc = pc

\* background_tasks.add_task(_start_batch_process, process_date)
AddTask ==
    /\ Len(invocations) < MaxInvocations
    /\ \E trigger \in BatchTriggers :
        invocations' = Append(invocations,
            [trigger |-> trigger, pc |-> "queued", outcome |-> "None"])
    /\ UNCHANGED <<batch_status, rankVars, matchVars, callVars, ontVars, builderVars, dbVars>>

\* _save_jd_json_and_start_pipeline: subprocess.Popen of the batch
\* processor, not waited for
SaveJdJsonAndStartPipeline ==
    /\ Len(invocations) < MaxInvocations
    /\ invocations' = Append(invocations,
           [trigger |-> "jd_create", pc |-> "subprocess", outcome |-> "None"])
    /\ UNCHANGED <<batch_status, rankVars, matchVars, callVars, ontVars, builderVars, dbVars>>

\* _start_batch_process up to `try`: running = True, last_error = None
StartBatchProcess(i) ==
    /\ At(i, "queued")
    /\ batch_status' = [batch_status EXCEPT !.running = TRUE,
                                             !.last_started_at = "time",
                                             !.last_error = "None"]
    /\ invocations' = [invocations EXCEPT ![i].pc = "try"]
    /\ UNCHANGED <<rankVars, matchVars, callVars, ontVars, builderVars, dbVars>>

\* if not script_path.exists(): last_error = msg; return
ScriptMissing(i) ==
    /\ At(i, "try")
    /\ batch_status' = [batch_status EXCEPT !.last_error = "msg"]
    /\ invocations' = [invocations EXCEPT ![i].pc = "finally", ![i].outcome = "missing_script"]
    /\ UNCHANGED <<rankVars, matchVars, callVars, ontVars, builderVars, dbVars>>

\* subprocess.run(cmd, ..., timeout=3600): the child starts
SubprocessRun(i) ==
    /\ At(i, "try")
    /\ invocations' = [invocations EXCEPT ![i].pc = "subprocess"]
    /\ UNCHANGED <<batch_status, rankVars, matchVars, callVars, ontVars, builderVars, dbVars>>

\* subprocess.run raises before the child runs: except Exception
SubprocessRaises(i) ==
    /\ At(i, "try")
    /\ batch_status' = [batch_status EXCEPT !.last_error = "msg"]
    /\ invocations' = [invocations EXCEPT ![i].pc = "finally", ![i].outcome = "exception"]
    /\ UNCHANGED <<rankVars, matchVars, callVars, ontVars, builderVars, dbVars>>

\* the child ends: return code 0, return code not 0, or TimeoutExpired
\* after the child was killed
SubprocessEnds(i) ==
    /\ At(i, "subprocess") /\ invocations[i].trigger \in BatchTriggers
    /\ \E outcome \in Outcomes :
        /\ invocations' = [invocations EXCEPT ![i].pc = "finally", ![i].outcome = outcome]
        /\ batch_status' = [batch_status EXCEPT
               !.last_error = IF outcome = "success" THEN @ ELSE "msg"]
    /\ UNCHANGED <<rankVars, matchVars, callVars, ontVars, builderVars, dbVars>>

\* finally: running = False, last_completed_at = time.time()
Finally(i) ==
    /\ At(i, "finally")
    /\ batch_status' = [batch_status EXCEPT !.running = FALSE,
                                             !.last_completed_at = "time"]
    /\ invocations' = [invocations EXCEPT ![i].pc = "done"]
    /\ UNCHANGED <<rankVars, matchVars, callVars, ontVars, builderVars, dbVars>>

\* the pipeline started by a JD creation ends
JdPipelineEnds(i) ==
    /\ At(i, "subprocess") /\ invocations[i].trigger = "jd_create"
    /\ \E outcome \in Outcomes \ {"timeout"} :
        invocations' = [invocations EXCEPT ![i].pc = "done", ![i].outcome = outcome]
    /\ UNCHANGED <<batch_status, rankVars, matchVars, callVars, ontVars, builderVars, dbVars>>

NextBatch ==
    \/ AddTask
    \/ SaveJdJsonAndStartPipeline
    \/ \E i \in DOMAIN invocations : StartBatchProcess(i)
    \/ \E i \in DOMAIN invocations : ScriptMissing(i)
    \/ \E i \in DOMAIN invocations : SubprocessRun(i)
    \/ \E i \in DOMAIN invocations : SubprocessRaises(i)
    \/ \E i \in DOMAIN invocations : SubprocessEnds(i)
    \/ \E i \in DOMAIN invocations : Finally(i)
    \/ \E i \in DOMAIN invocations : JdPipelineEnds(i)

SpecBatch == InitBatch /\ [][NextBatch]_vars

\* the invocations whose batch_processor.py subprocess is executing
Executing == {i \in DOMAIN invocations : At(i, "subprocess")}

\* those of them that _start_batch_process started
ExecutingBatch == {i \in Executing : invocations[i].trigger \in BatchTriggers}

\* C25: the backend never has two runs of the batch pipeline executing at
\* the same time, whichever of the triggers started them.
C25_OneRunAtATime == Cardinality(Executing) <= 1

\* two uploads have each started a batch subprocess and both are executing
C25_TwoRunsOverlap ==
    \E i, k \in ExecutingBatch : i # k

\* a JD creation has started its pipeline while a batch run is executing
C25_JdRunOverlaps ==
    \E i \in ExecutingBatch : \E k \in Executing : invocations[k].trigger = "jd_create"

\* the invocations of _start_batch_process that have begun and not ended
InProgress ==
    {i \in DOMAIN invocations :
        invocations[i].trigger \in BatchTriggers /\ ~At(i, "queued") /\ ~At(i, "done")}

Ended ==
    {i \in DOMAIN invocations : invocations[i].trigger \in BatchTriggers /\ At(i, "done")}

\* C26: _batch_status['running'] is true whenever a batch subprocess started
\* by _start_batch_process is executing, and is false with last_completed_at
\* set once every invocation that began has ended, whatever the outcomes and
\* also when invocations overlap.
C26_RunningTracksSubprocess ==
    /\ ExecutingBatch # {} => batch_status.running
    /\ (Ended # {} /\ InProgress = {}) =>
           ~batch_status.running /\ batch_status.last_completed_at = "time"

\* what does hold: once every invocation that began has ended, running is
\* false and last_completed_at is set, for each outcome
C26_IdleOnceAllEnded ==
    (Ended # {} /\ InProgress = {}) =>
        ~batch_status.running /\ batch_status.last_completed_at = "time"

\* what does hold: while one invocation alone is in progress and none has
\* ended before, running is true
C26_RunningOfFirstInvocation ==
    (Cardinality(InProgress) = 1 /\ Ended = {}) =>
        batch_status.running

\* one invocation has ended and set running to false while the subprocess
\* of an overlapping invocation is still executing
C26_IdleWhileExecuting ==
    /\ ExecutingBatch # {}
    /\ Ended # {}
    /\ ~batch_status.running

(***************************************************************************)
(* The seniority features of a pair, batch and single-match, over every    *)
(* pair of seniority cells.                                                *)
(***************************************************************************)
\* the cells of inferred_seniority and constraints_seniority_normalized:
\* the recognised levels, two levels an ontology's seniority_mappings can
\* name and SENIORITY_LEVELS lacks, the empty cell (also the default of a
\* row that is missing) and NaN
SeniorityCells == {"junior", "mid", "senior", "lead", "executive", "", "nan"}

RecognisedLevels == DOMAIN SENIORITY_LEVELS

SeniorityCvRow(a) ==
    [CvRow(30, {}, {1}, FALSE, FALSE) EXCEPT !.inferred_seniority = a.cv]

SeniorityJdRow(a) ==
    [ min_experience_years_normalized |-> 30,
      constraints_seniority_normalized |-> a.jd,
      requirements |-> {}, nice_to_have |-> {}, title |-> {1} ]

InitSeniorityMatch ==
    /\ RankIdle /\ MatchIdle /\ OntologyIdle
    /\ BuilderIdle /\ DbIdle /\ BatchIdle
    /\ call \in [fn : {"compute_seniority_features", "compute_features"},
                 arg : [cv : SeniorityCells, jd : SeniorityCells]]
    /\ ret = None

ComputeSeniorityFeatures ==
    /\ call # None /\ call.fn = "compute_seniority_features"
    /\ ret = None
    /\ ret' = [value |-> compute_seniority_features(SeniorityCvRow(call.arg),
                                                    SeniorityJdRow(call.arg))]
    /\ UNCHANGED <<call, rankVars, matchVars, ontVars,
                 builderVars, dbVars, batchVars>>

ComputeFeaturesOfSeniority ==
    /\ call # None /\ call.fn = "compute_features"
    /\ ret = None
    /\ ret' = [value |-> single_compute_features(SeniorityCvRow(call.arg),
                                                 SeniorityJdRow(call.arg), R(1, 2))]
    /\ UNCHANGED <<call, rankVars, matchVars, ontVars,
                 builderVars, dbVars, batchVars>>

NextSeniorityMatch == ComputeSeniorityFeatures \/ ComputeFeaturesOfSeniority

SpecSeniorityMatch == InitSeniorityMatch /\ [][NextSeniorityMatch]_vars

SeniorityMatchDone == ret # None

\* C27: seniority_mismatch_strong = 1 or seniority_underskilled = 1 implies
\* seniority_match = 0, and seniority_match = 1 only when both sides carry
\* the same recognised level.
C27_MatchOnlyOfRecognisedLevels ==
    SeniorityMatchDone =>
        /\ (ret.value.seniority_mismatch_strong = ROne
               \/ ret.value.seniority_underskilled = ROne)
              => ret.value.seniority_match = RZero
        /\ ret.value.seniority_match = ROne
              => call.arg.cv \in RecognisedLevels /\ call.arg.cv = call.arg.jd

\* what does hold: the flags exclude a match, and a match means equal levels
\* where every cell that is no recognised level counts as level 0
C27_MatchOfEqualLevels ==
    SeniorityMatchDone =>
        /\ (ret.value.seniority_mismatch_strong = ROne
               \/ ret.value.seniority_underskilled = ROne)
              => ret.value.seniority_match = RZero
        /\ ret.value.seniority_match = ROne
              <=> get_seniority_numeric(call.arg.cv) = get_seniority_numeric(call.arg.jd)

\* a candidate without seniority and a JD asking for a lead, reported as a
\* seniority match
C27_MatchOfUnknownLevels ==
    /\ SeniorityMatchDone
    /\ call.arg.cv = "" /\ call.arg.jd = "lead"
    /\ ret.value.seniority_match = ROne

(***************************************************************************)
(* The batch pipeline run twice over the same pair list: with the tag      *)
(* columns of cv_dataset as they are, and with one more tag for one        *)
(* candidate of the list.                                                  *)
(***************************************************************************)
\* add_dei_tags over a CV table whose tag columns are `tags`
add_dei_tags_from(features, tags) ==
    [ i \in DOMAIN features |->
        LET cv == tags[features[i].user_id]
        IN  features[i] @@
            [ tag_women |-> Bit(cv.tag_women),
              tag_protected_category |-> Bit(cv.tag_protected_category),
              dei_tag_count |-> Bit(cv.tag_women) + Bit(cv.tag_protected_category) ] ]

\* the tag columns of cv_data, no tag at all, tag_women for everybody, and
\* a table where every user differs
TagTables ==
    { [u \in Users |-> [tag_women |-> cv_data[u].tag_women,
                        tag_protected_category |-> cv_data[u].tag_protected_category]],
      [u \in Users |-> [tag_women |-> FALSE, tag_protected_category |-> FALSE]],
      [u \in Users |-> [tag_women |-> TRUE, tag_protected_category |-> FALSE]],
      [u \in Users |-> [tag_women |-> u \in {"u1", "u4"},
                        tag_protected_category |-> u \in {"u3", "u4"}]] }

DeiTagNames == {"tag_women", "tag_protected_category"}

\* the table with one more tag for one user
WithTag(tags, user_id, tag) == [tags EXCEPT ![user_id][tag] = TRUE]

\* the scored row of a pair
ScoredRow(df, jd_id, user_id) ==
    df[CHOOSE k \in DOMAIN df : df[k].jd_id = jd_id /\ df[k].user_id = user_id]

\* the pair lists of one JD group
GroupLists ==
    {WithRank(s) : s \in {l \in PairLists : \A k \in DOMAIN l : l[k].jd_id = l[1].jd_id}}

InitTagged ==
    /\ MatchIdle /\ OntologyIdle
    /\ BuilderIdle /\ DbIdle /\ BatchIdle
    /\ stage = "input"
    /\ reranker_input \in GroupLists
    /\ features_file = <<>>
    /\ scored = <<>>
    /\ call \in {c \in [fn : {"run_full_pipeline"},
                        arg : [tags : TagTables, row : 1..MaxPairs, tag : DeiTagNames]] :
                    /\ c.arg.row \in DOMAIN reranker_input
                    /\ ~c.arg.tags[reranker_input[c.arg.row].user_id][c.arg.tag]}
    /\ ret = None

\* run_feature_engine
TaggedBuildAllFeatures ==
    /\ stage = "input"
    /\ features_file' = build_all_features(reranker_input)
    /\ stage' = "features"
    /\ UNCHANGED <<reranker_input, scored, matchVars, callVars, ontVars,
                 builderVars, dbVars, batchVars>>

\* build_dei_adjusted_features over the tag columns as they are now
TaggedBuildDeiAdjustedFeatures ==
    /\ stage = "features"
    /\ features_file' =
           sort_values(rerank_with_dei(compute_dei_score(
               add_dei_tags_from(features_file, call.arg.tags))))
    /\ stage' = "dei"
    /\ UNCHANGED <<reranker_input, scored, matchVars, callVars, ontVars,
                 builderVars, dbVars, batchVars>>

\* run_reranker; the scored row of the candidate is kept for the comparison
TaggedRunReranker ==
    /\ stage = "dei"
    /\ scored' = compute_linear_score(features_file)
    /\ stage' = "scored"
    /\ log' = Append(log, ScoredRow(scored', reranker_input[call.arg.row].jd_id,
                                    reranker_input[call.arg.row].user_id))
    /\ UNCHANGED <<reranker_input, features_file, matchVars, callVars,
                 ontology_file, ontology, builderVars, dbVars, batchVars>>

\* the candidate gets the tag, and the pipeline is run again
GiveTag ==
    /\ stage = "scored" /\ Len(log) = 1
    /\ call' = [call EXCEPT !.arg.tags =
                   WithTag(@, reranker_input[call.arg.row].user_id, call.arg.tag)]
    /\ stage' = "input"
    /\ UNCHANGED <<reranker_input, features_file, scored, ret, log, matchVars,
                 ontology_file, ontology, builderVars, dbVars, batchVars>>

NextTagged ==
    \/ TaggedBuildAllFeatures
    \/ TaggedBuildDeiAdjustedFeatures
    \/ TaggedRunReranker
    \/ GiveTag

SpecTagged == InitTagged /\ [][NextTagged]_vars

\* both runs are done: log[1] is the candidate's row before the tag,
\* log[2] the row after
TaggedDone == Len(log) = 2

\* C28: every other input of the JD group held fixed, one more DEI tag for
\* a candidate never lowers the candidate's final_score and never increases
\* the candidate's final_rank.
C28_TagNeverHurts ==
    TaggedDone =>
        /\ RLe(log[1].final_score, log[2].final_score)
        /\ log[2].final_rank <= log[1].final_rank

\* the tag has raised the candidate's final_score and moved the candidate
\* up in the group
C28_Witness ==
    /\ TaggedDone
    /\ log[2].dei_tag_count = log[1].dei_tag_count + 1
    /\ RLt(log[1].final_score, log[2].final_score)
    /\ log[2].final_rank < log[1].final_rank

(***************************************************************************)
(* build_main_risks: the rules that fire and the risks that are returned   *)
(***************************************************************************)
RiskIds(risks) == {risks[k].risk_id : k \in DOMAIN risks}

\* C29: at most three risk rules fire for a candidate, 'underskilled' is
\* never reported together with 'seniority_gap_critical', and the cut of
\* main_risks to 3 discards no risk that fired.
C29_NoRiskDiscarded ==
    RisksDone =>
        LET found == main_risks_found(RiskArgs(call.arg))
        IN  /\ Len(found) <= 3
            /\ ~({"underskilled", "seniority_gap_critical"} \subseteq RiskIds(found))
            /\ RiskIds(ret.value) = RiskIds(found)
            /\ Len(ret.value) = Len(found)

\* the features of all four rules are set (skills missing, a strong
\* seniority mismatch, underskilled, experience below the requirement) and
\* three risks are returned, 'seniority_gap_critical' standing for both
\* seniority rules
C29_Witness ==
    /\ RisksDone
    /\ call.arg.missing > 0
    /\ call.arg.seniority.mismatch = ROne /\ call.arg.seniority.underskilled = ROne
    /\ call.arg.experience.meets = RZero
    /\ RiskIds(ret.value) =
           {"missing_core_skills", "seniority_gap_critical", "experience_below_requirement"}

(***************************************************************************)
(* parse_skills_string over one CV skill name and one JD skill name        *)
(***************************************************************************)
\* skill names as they are written between the commas of a skills column
WrittenNames ==
    { <<"e", "x", "c", "e", "l">>,
      <<"x", "c", "e", "l">>,
      <<" ", "E", "x", "c", "e", "l", " ">>,
      <<"e", "l", "m">>,
      <<"l", "m">>,
      <<"e">>,
      <<"e", "e">>,
      <<"*", " ", "g", "o">>,
      <<"g", "o">>,
      <<"s", "q", "l">>,
      <<" ">>,
      <<"e", "x", "p", "r", "e", "s", "s">> }

\* the name trimmed and lower-cased
TrimmedLower(name) == lower(lstripChars(rstripChars(name)))

InitSkillNames ==
    /\ RankIdle /\ MatchIdle /\ OntologyIdle
    /\ BuilderIdle /\ DbIdle /\ BatchIdle
    /\ call \in [fn : {"parse_skills_string"}, arg : [cv : WrittenNames, jd : WrittenNames]]
    /\ ret = None

\* compute_skills_features over a CV with the one skill and a JD with the
\* one requirement: the two parsed sets and their intersection
ParseSkillsString ==
    /\ call # None /\ call.fn = "parse_skills_string"
    /\ ret = None
    /\ LET cv_skills == parse_skills_string(<<call.arg.cv>>)
           jd_requirements == parse_skills_string(<<call.arg.jd>>)
       IN  ret' = [value |-> [cv_skills |-> cv_skills,
                              jd_requirements |-> jd_requirements,
                              core_overlap |-> cv_skills \cap jd_requirements]]
    /\ UNCHANGED <<call, rankVars, matchVars, ontVars,
                 builderVars, dbVars, batchVars>>

NextSkillNames == ParseSkillsString

SpecSkillNames == InitSkillNames /\ [][NextSkillNames]_vars

SkillNamesDone == ret # None

\* C30: a CV skill and a JD skill overlap only if their trimmed, lower-cased
\* names are identical, and parse_skills_string drops no name that is not
\* empty once trimmed.
C30_SameOnlyIfIdentical ==
    SkillNamesDone =>
        /\ ret.value.core_overlap # {} =>
               TrimmedLower(call.arg.cv) = TrimmedLower(call.arg.jd)
        /\ TrimmedLower(call.arg.cv) # <<>> => ret.value.cv_skills # {}
        /\ TrimmedLower(call.arg.jd) # <<>> => ret.value.jd_requirements # {}

\* a name that begins, once trimmed and lower-cased, with '*', 'e' or a blank
Marked(name) == TrimmedLower(name) # <<>> /\ Head(TrimmedLower(name)) \in {"*", "e", " "}

\* what does hold: the claim for names that do not begin with '*' or 'e'
C30_SameOnlyIfIdenticalUnmarked ==
    (SkillNamesDone /\ ~Marked(call.arg.cv) /\ ~Marked(call.arg.jd)) =>
        /\ ret.value.core_overlap # {} =>
               TrimmedLower(call.arg.cv) = TrimmedLower(call.arg.jd)
        /\ TrimmedLower(call.arg.cv) # <<>> => ret.value.cv_skills = {TrimmedLower(call.arg.cv)}
        /\ TrimmedLower(call.arg.jd) # <<>> =>
               ret.value.jd_requirements = {TrimmedLower(call.arg.jd)}

\* the CV skill 'excel' and the JD requirement 'xcel' are one element
C30_ExcelIsXcel ==
    /\ SkillNamesDone
    /\ call.arg.cv = <<"e", "x", "c", "e", "l">>
    /\ call.arg.jd = <<"x", "c", "e", "l">>
    /\ ret.value.core_overlap = {<<"x", "c", "e", "l">>}

\* the JD requirement 'ee' is dropped
C30_NameDropped ==
    /\ SkillNamesDone
    /\ call.arg.jd = <<"e", "e">>
    /\ ret.value.jd_requirements = {}

====
